---- MODULE Spec2Model ----
(***************************************************************************)
(* Model of dragonfly-client-rs.                                           *)
(*                                                                         *)
(*  Spec        the API client of src/api.rs: a State cell (rules, hash,   *)
(*              access_token) behind one RwLock, used by several threads   *)
(*              that call bulk_get_job / send_success / send_error /       *)
(*              update_rules, against an auth endpoint and a mainframe.    *)
(*  SpecJob     the same client, its threads taking jobs: hash check, rule *)
(*              refresh, scan under a read handle, submission.             *)
(*  SpecWorker  the worker loop of src/main.rs: get_job, rule sync under   *)
(*              the state lock, do_job.                                    *)
(*  SpecScan    scan_targz and scan_zip of src/scanner.rs over archives.   *)
(*  SpecPackage the scores of src/scanner.rs and the body built by do_job. *)
(*  SpecFiletype the filetype filter of scan_buf and src/exts.rs.          *)
(*  SpecUrl     create_inspector_url of src/utils.rs.                      *)
(***************************************************************************)
EXTENDS Integers, Sequences, FiniteSets, TLC

\* ------------------------------------------------------------------ bounds
Threads == {1, 2}
MaxTokens == 3       \* access tokens the auth endpoint issues
MaxHash == 2         \* rule revisions the mainframe publishes
MaxTries == 1        \* consecutive failed token requests inside one refresh
MaxFetch == 2        \* rule fetches issued after start-up
MaxDists == 1        \* distributions of one job
MaxEntries == 3      \* entries of one archive
max_scan_size == 2   \* APP_CONFIG.max_scan_size, scaled down
MaxFiles == 2        \* files of the distribution of a one-distribution job
MaxJobDists == 2     \* distributions of a job with several
MaxJobFiles == 1     \* files of each of them
MaxPathLen == 5      \* characters of a file path
MaxTypeLen == 3      \* characters of a filetype metadata string
MaxSegments == 3     \* path segments of a download URL
MaxFailures == 12    \* failed token requests counted in one reauthenticate

VARIABLES
  state,       \* api.rs State: [rules, hash, access_token]
  lock,        \* the RwLock around it: [readers, writer]
  pc,          \* pc[t]: where thread t is
  loc,         \* loc[t]: the locals of the call thread t is in
  auth0,       \* the auth endpoint: [issued, expired]
  mainframe,   \* the mainframe: [hash]
  nFetch,      \* rule fetches issued so far (0 is the one made by new())
  refreshesFor, \* refreshesFor[g]: refreshes started because token g got 401
  mstate,      \* main.rs client.state: [hash, rules, locked_by]
  wk,          \* wk[w]: worker w of main.rs, its position and locals
  scan,        \* one run of scan_targz / scan_zip
  pkg,         \* the scan results of one job and what do_job makes of them
  gate,        \* one rule match going through the filetype filter of scan_buf
  insp,        \* one download URL going through create_inspector_url
  reauth,      \* one call of reauthenticate and the auth endpoint it talks to
  fetch,       \* one call of fetch_tarball / fetch_zipfile
  dists,       \* one call of scan_all_distributions
  timer        \* the refresh timer, the token it renews and the clock

apiVars == <<state, lock, pc, loc, auth0, nFetch, refreshesFor>>
fnVars == <<pkg, gate, insp, reauth, fetch, dists, timer>>
vars == <<state, lock, pc, loc, auth0, mainframe, nFetch, refreshesFor,
          mstate, wk, scan, pkg, gate, insp, reauth, fetch, dists, timer>>

NoThread == 0
Tokens == 1..MaxTokens
AuthOps == {"bulk_get_job", "send_success", "send_error"}

\* What yara::Rules is to the model: the response it was compiled from.
Rules(h, n) == [hash |-> h, fetch |-> n]

IdleLoc ==
  [op |-> "none", sends |-> 0, refreshes |-> 0, first |-> "none",
   second |-> "none", result |-> "none", tries |-> 0,
   new_access_token |-> 0, sent |-> 0,
   rules_response |-> [hash |-> 0, compiles |-> TRUE],
   pre |-> [rules |-> Rules(0, 0), hash |-> 0], failed |-> "none",
   job |-> 0, mismatch |-> FALSE, seenAt |-> 0, updated |-> FALSE,
   scanned |-> Rules(0, 0), commit |-> 0]

\* DragonflyClient::new: one token, one rules response, compiled and stored.
ApiInit ==
  /\ state = [rules |-> Rules(1, 0), hash |-> 1, access_token |-> 1]
  /\ lock = [readers |-> {}, writer |-> NoThread]
  /\ pc = [t \in Threads |-> "idle"]
  /\ loc = [t \in Threads |-> IdleLoc]
  /\ auth0 = [issued |-> 1, expired |-> 0]
  /\ mainframe = [hash |-> 1]
  /\ nFetch = 0
  /\ refreshesFor = [g \in Tokens |-> 0]

\* ------------------------------------------------------------ environment
\* A bearer token is accepted while it has not expired.
TokenValid(tok) == tok > auth0.expired /\ tok <= auth0.issued

\* error_for_status() of an authenticated request: 401 for a token the
\* mainframe rejects, else success; any request may fail otherwise.
Responses(tok) == IF TokenValid(tok) THEN {"ok", "err"} ELSE {"401", "err"}

\* Every token issued so far expires.
Expire ==
  /\ auth0.expired < auth0.issued
  /\ auth0.issued < MaxTokens
  /\ auth0' = [auth0 EXCEPT !.expired = auth0.issued]
  /\ UNCHANGED <<state, lock, pc, loc, mainframe, nFetch, refreshesFor,
               mstate, wk, scan, fnVars>>

\* The mainframe publishes a new rule revision.
Publish ==
  /\ mainframe.hash < MaxHash
  /\ mainframe' = [hash |-> mainframe.hash + 1]
  /\ UNCHANGED <<state, lock, pc, loc, auth0, nFetch, refreshesFor,
               mstate, wk, scan, fnVars>>

\* ----------------------------------------------------------------- RwLock
CanRead == lock.writer = NoThread
CanWrite == lock.writer = NoThread /\ lock.readers = {}

\* ------------------------------------- bulk_get_job, send_error, send_success
Call(t, o) ==
  /\ pc[t] = "idle"
  /\ loc' = [loc EXCEPT ![t] = [IdleLoc EXCEPT !.op = o]]
  /\ pc' = [pc EXCEPT ![t] = "read_wait"]
  /\ UNCHANGED <<state, lock, auth0, mainframe, nFetch, refreshesFor,
               mstate, wk, scan, fnVars>>

\* let state = self.state.read().unwrap();
AcquireRead(t) ==
  /\ pc[t] = "read_wait"
  /\ CanRead
  /\ lock' = [lock EXCEPT !.readers = @ \cup {t}]
  /\ pc' = [pc EXCEPT ![t] = "send1"]
  /\ UNCHANGED <<state, loc, auth0, mainframe, nFetch, refreshesFor,
               mstate, wk, scan, fnVars>>

\* FirstAttempt with every failure of the first attempt, not only 401,
\* leading to a refresh and a second attempt.
FirstAttemptRefreshOnError(t) ==
  /\ pc[t] = "send1"
  /\ \E r \in Responses(state.access_token) :
       /\ lock' = [lock EXCEPT !.readers = @ \ {t}]
       /\ IF r # "ok"
            THEN /\ loc' = [loc EXCEPT ![t].sends = 1, ![t].first = r,
                                       ![t].sent = state.access_token]
                 /\ pc' = [pc EXCEPT ![t] = "write_wait"]
            ELSE /\ loc' = [loc EXCEPT ![t].sends = 1, ![t].first = r,
                                       ![t].sent = state.access_token,
                                       ![t].result = r]
                 /\ pc' = [pc EXCEPT ![t] = "ret"]
  /\ UNCHANGED <<state, auth0, mainframe, nFetch, refreshesFor,
               mstate, wk, scan, fnVars>>

\* The first attempt and the match on its outcome.
FirstAttempt(t) ==
  /\ pc[t] = "send1"
  /\ \E r \in Responses(state.access_token) :
       /\ lock' = [lock EXCEPT !.readers = @ \ {t}]
       /\ IF r = "401"
            THEN /\ loc' = [loc EXCEPT ![t].sends = 1, ![t].first = r,
                                       ![t].sent = state.access_token]
                 /\ pc' = [pc EXCEPT ![t] = "write_wait"]
            ELSE /\ loc' = [loc EXCEPT ![t].sends = 1, ![t].first = r,
                                       ![t].sent = state.access_token,
                                       ![t].result = r]
                 /\ pc' = [pc EXCEPT ![t] = "ret"]
  /\ UNCHANGED <<state, auth0, mainframe, nFetch, refreshesFor,
               mstate, wk, scan, fnVars>>

\* AcquireWrite for a refresh that does not wait for the write lock.
AcquireWriteNoWait(t) ==
  /\ pc[t] = "write_wait"
  /\ lock' = [lock EXCEPT !.writer = t]
  /\ loc' = [loc EXCEPT ![t].refreshes = @ + 1]
  /\ refreshesFor' = [refreshesFor EXCEPT ![loc[t].sent] = @ + 1]
  /\ pc' = [pc EXCEPT ![t] = "reauth"]
  /\ UNCHANGED <<state, auth0, mainframe, nFetch,
               mstate, wk, scan, fnVars>>

\* let mut state = self.state.write().unwrap(); then reauthenticate() starts.
AcquireWrite(t) ==
  /\ pc[t] = "write_wait"
  /\ CanWrite
  /\ lock' = [lock EXCEPT !.writer = t]
  /\ loc' = [loc EXCEPT ![t].refreshes = @ + 1]
  /\ refreshesFor' = [refreshesFor EXCEPT ![loc[t].sent] = @ + 1]
  /\ pc' = [pc EXCEPT ![t] = "reauth"]
  /\ UNCHANGED <<state, auth0, mainframe, nFetch,
               mstate, wk, scan, fnVars>>

\* One turn of reauthenticate's loop: fetch_access_token, then break or sleep.
Reauthenticate(t) ==
  /\ pc[t] = "reauth"
  /\ \/ /\ auth0.issued < MaxTokens
        /\ auth0' = [auth0 EXCEPT !.issued = @ + 1]
        /\ loc' = [loc EXCEPT ![t].new_access_token = auth0.issued + 1,
                                 ![t].tries = 0]
        /\ pc' = [pc EXCEPT ![t] = "install"]
     \/ /\ loc[t].tries < MaxTries
        /\ loc' = [loc EXCEPT ![t].tries = @ + 1]
        /\ UNCHANGED <<auth0, pc>>
  /\ UNCHANGED <<state, lock, mainframe, nFetch, refreshesFor,
               mstate, wk, scan, fnVars>>

\* Install with the write lock given up as soon as the token is stored.
InstallAndRelease(t) ==
  /\ pc[t] = "install"
  /\ state' = [state EXCEPT !.access_token = loc[t].new_access_token]
  /\ lock' = [lock EXCEPT !.writer = NoThread]
  /\ pc' = [pc EXCEPT ![t] = "send2"]
  /\ UNCHANGED <<loc, auth0, mainframe, nFetch, refreshesFor,
               mstate, wk, scan, fnVars>>

\* state.access_token = new_access_token;
Install(t) ==
  /\ pc[t] = "install"
  /\ state' = [state EXCEPT !.access_token = loc[t].new_access_token]
  /\ pc' = [pc EXCEPT ![t] = "send2"]
  /\ UNCHANGED <<lock, loc, auth0, mainframe, nFetch, refreshesFor,
               mstate, wk, scan, fnVars>>

\* SecondAttempt as a loop would have it: a second 401 refreshes again.
SecondAttemptUntilAccepted(t) ==
  /\ pc[t] = "send2"
  /\ \E r \in Responses(state.access_token) :
       /\ loc' = [loc EXCEPT ![t].sends = @ + 1, ![t].second = r,
                             ![t].sent = state.access_token, ![t].result = r,
                             ![t].refreshes = IF r = "401" THEN @ + 1 ELSE @]
       /\ lock' = [lock EXCEPT !.writer = IF r = "401" THEN t ELSE NoThread]
       /\ pc' = [pc EXCEPT ![t] = IF r = "401" THEN "reauth" ELSE "ret"]
  /\ UNCHANGED <<state, auth0, mainframe, nFetch, refreshesFor,
               mstate, wk, scan, fnVars>>

\* The request again, under the write lock; its outcome is the call's.
SecondAttempt(t) ==
  /\ pc[t] = "send2"
  /\ \E r \in Responses(state.access_token) :
       loc' = [loc EXCEPT ![t].sends = @ + 1, ![t].second = r,
                          ![t].sent = state.access_token, ![t].result = r]
  /\ lock' = [lock EXCEPT !.writer = NoThread]
  /\ pc' = [pc EXCEPT ![t] = "ret"]
  /\ UNCHANGED <<state, auth0, mainframe, nFetch, refreshesFor,
               mstate, wk, scan, fnVars>>

\* The caller takes the result.
Return(t) ==
  /\ pc[t] = "ret"
  /\ pc' = [pc EXCEPT ![t] = "idle"]
  /\ loc' = [loc EXCEPT ![t] = IdleLoc]
  /\ UNCHANGED <<state, lock, auth0, mainframe, nFetch, refreshesFor,
               mstate, wk, scan, fnVars>>

\* ------------------------------------------------------------ update_rules
CallUpdateRules(t) ==
  /\ pc[t] = "idle"
  /\ nFetch < MaxFetch
  /\ loc' = [loc EXCEPT ![t] = [IdleLoc EXCEPT !.op = "update_rules"]]
  /\ pc' = [pc EXCEPT ![t] = "ur_wait"]
  /\ UNCHANGED <<state, lock, auth0, mainframe, nFetch, refreshesFor,
               mstate, wk, scan, fnVars>>

\* UpdateRulesLock taking the cell as soon as no other writer has it.
UpdateRulesLockOverReaders(t) ==
  /\ pc[t] = "ur_wait"
  /\ lock.writer = NoThread
  /\ lock' = [lock EXCEPT !.writer = t]
  /\ loc' = [loc EXCEPT ![t].pre = [rules |-> state.rules, hash |-> state.hash]]
  /\ pc' = [pc EXCEPT ![t] = "ur_fetch"]
  /\ UNCHANGED <<state, auth0, mainframe, nFetch, refreshesFor,
               mstate, wk, scan, fnVars>>

\* let mut state = self.state.write().unwrap();
UpdateRulesLock(t) ==
  /\ pc[t] = "ur_wait"
  /\ CanWrite
  /\ lock' = [lock EXCEPT !.writer = t]
  /\ loc' = [loc EXCEPT ![t].pre = [rules |-> state.rules, hash |-> state.hash]]
  /\ pc' = [pc EXCEPT ![t] = "ur_fetch"]
  /\ UNCHANGED <<state, auth0, mainframe, nFetch, refreshesFor,
               mstate, wk, scan, fnVars>>

\* fetch_rules(self.get_http_client(), &state.access_token)?
UpdateRulesFetch(t) ==
  /\ pc[t] = "ur_fetch"
  /\ nFetch' = nFetch + 1
  /\ \E r \in Responses(state.access_token), c \in BOOLEAN :
       IF r = "ok"
         THEN /\ loc' = [loc EXCEPT ![t].sends = 1, ![t].first = r,
                           ![t].sent = state.access_token,
                           ![t].rules_response =
                              [hash |-> mainframe.hash, compiles |-> c]]
              /\ pc' = [pc EXCEPT ![t] = "ur_compile"]
         ELSE /\ c
              /\ loc' = [loc EXCEPT ![t].sends = 1, ![t].first = r,
                           ![t].sent = state.access_token,
                           ![t].result = r, ![t].failed = "fetch"]
              /\ pc' = [pc EXCEPT ![t] = "ur_ret"]
  /\ UNCHANGED <<state, lock, auth0, mainframe, refreshesFor,
               mstate, wk, scan, fnVars>>

\* UpdateRulesCompile with the hash stored before the sources are compiled.
UpdateRulesCompileHashFirst(t) ==
  /\ pc[t] = "ur_compile"
  /\ IF loc[t].rules_response.compiles
       THEN /\ state' = [state EXCEPT
                           !.rules = Rules(loc[t].rules_response.hash, nFetch)]
            /\ pc' = [pc EXCEPT ![t] = "ur_sethash"]
            /\ UNCHANGED loc
       ELSE /\ loc' = [loc EXCEPT ![t].result = "err", ![t].failed = "compile"]
            /\ pc' = [pc EXCEPT ![t] = "ur_ret"]
            /\ state' = [state EXCEPT !.hash = loc[t].rules_response.hash]
  /\ UNCHANGED <<lock, auth0, mainframe, nFetch, refreshesFor,
               mstate, wk, scan, fnVars>>

\* state.rules = rules_response.compile()?;
UpdateRulesCompile(t) ==
  /\ pc[t] = "ur_compile"
  /\ IF loc[t].rules_response.compiles
       THEN /\ state' = [state EXCEPT
                           !.rules = Rules(loc[t].rules_response.hash, nFetch)]
            /\ pc' = [pc EXCEPT ![t] = "ur_sethash"]
            /\ UNCHANGED loc
       ELSE /\ loc' = [loc EXCEPT ![t].result = "err", ![t].failed = "compile"]
            /\ pc' = [pc EXCEPT ![t] = "ur_ret"]
            /\ UNCHANGED state
  /\ UNCHANGED <<lock, auth0, mainframe, nFetch, refreshesFor,
               mstate, wk, scan, fnVars>>

\* UpdateRulesSetHash with the assignment left out.
UpdateRulesKeepHash(t) ==
  /\ pc[t] = "ur_sethash"
  /\ loc' = [loc EXCEPT ![t].result = "ok"]
  /\ pc' = [pc EXCEPT ![t] = "ur_ret"]
  /\ UNCHANGED <<state, lock, auth0, mainframe, nFetch, refreshesFor,
               mstate, wk, scan, fnVars>>

\* state.hash = rules_response.hash;
UpdateRulesSetHash(t) ==
  /\ pc[t] = "ur_sethash"
  /\ state' = [state EXCEPT !.hash = loc[t].rules_response.hash]
  /\ loc' = [loc EXCEPT ![t].result = "ok"]
  /\ pc' = [pc EXCEPT ![t] = "ur_ret"]
  /\ UNCHANGED <<lock, auth0, mainframe, nFetch, refreshesFor,
               mstate, wk, scan, fnVars>>

\* Ok(()) or the error of `?`: the write guard is dropped as the call returns.
UpdateRulesReturn(t) ==
  /\ pc[t] = "ur_ret"
  /\ lock' = [lock EXCEPT !.writer = NoThread]
  /\ loc' = [loc EXCEPT ![t].updated = (loc[t].result = "ok")]
  /\ pc' = [pc EXCEPT ![t] = IF loc[t].job # 0 THEN "scan_wait" ELSE "ret"]
  /\ UNCHANGED <<state, auth0, mainframe, nFetch, refreshesFor,
               mstate, wk, scan, fnVars>>

\* ------------------------------------------------- a job, from take to report
\* A job of the batch: its hash is a revision the mainframe has published.
TakeJob(t, h) ==
  /\ pc[t] = "idle"
  /\ h \in 1..mainframe.hash
  /\ loc' = [loc EXCEPT ![t] = [IdleLoc EXCEPT !.job = h]]
  /\ pc' = [pc EXCEPT ![t] = "job_check"]
  /\ UNCHANGED <<state, lock, auth0, mainframe, nFetch, refreshesFor,
               mstate, wk, scan, fnVars>>

\* If job.hash differs from the stored hash, refresh the rules (update_rules).
CheckHash(t) ==
  /\ pc[t] = "job_check"
  /\ CanRead
  /\ state.hash # loc[t].job => nFetch < MaxFetch
  /\ loc' = [loc EXCEPT ![t].mismatch = (state.hash # loc[t].job),
                        ![t].seenAt = nFetch,
                        ![t].op = IF state.hash # loc[t].job
                                    THEN "update_rules" ELSE "none"]
  /\ pc' = [pc EXCEPT ![t] = IF state.hash # loc[t].job
                               THEN "ur_wait" ELSE "scan_wait"]
  /\ UNCHANGED <<state, lock, auth0, mainframe, nFetch, refreshesFor,
               mstate, wk, scan, fnVars>>

\* The scan takes a read handle on the state: the rule set it scans with and
\* the commit hash of the package's results come from that one handle.
ScanStart(t) ==
  /\ pc[t] = "scan_wait"
  /\ CanRead
  /\ lock' = [lock EXCEPT !.readers = @ \cup {t}]
  /\ loc' = [loc EXCEPT ![t].scanned = state.rules, ![t].commit = state.hash]
  /\ pc' = [pc EXCEPT ![t] = "scanning"]
  /\ UNCHANGED <<state, auth0, mainframe, nFetch, refreshesFor,
               mstate, wk, scan, fnVars>>

\* scan_all_distributions returns; the result or the error is then reported.
ScanEnd(t) ==
  /\ pc[t] = "scanning"
  /\ lock' = [lock EXCEPT !.readers = @ \ {t}]
  /\ \E o \in {"send_success", "send_error"} :
       loc' = [loc EXCEPT ![t].op = o, ![t].sends = 0, ![t].first = "none",
                          ![t].result = "none", ![t].sent = 0]
  /\ pc' = [pc EXCEPT ![t] = "read_wait"]
  /\ UNCHANGED <<state, auth0, mainframe, nFetch, refreshesFor,
               mstate, wk, scan, fnVars>>

\* ------------------------------------------------ main.rs: the worker loop
Workers == Threads

IdleWorker ==
  [pc |-> "loop", job |-> [hash |-> 0, ndist |-> 0],
   mismatch |-> FALSE, synced |-> FALSE, fetched |-> 0,
   i |-> 0, run |-> 0, err |-> "none", submitted |-> "none",
   used |-> {}, disturbed |-> FALSE]

WorkerInit ==
  /\ mstate = [hash |-> 1, rules |-> 1, locked_by |-> NoThread]
  /\ wk = [w \in Workers |-> IdleWorker]

\* GetJob by a worker that takes the next job before it is done with the
\* one it has.
GetJobWhileBusy(w) ==
  /\ wk[w].pc \in {"loop", "do_job", "submit"}
  /\ \/ \E h \in 1..mainframe.hash, n \in 0..MaxDists :
          wk' = [wk EXCEPT ![w] = [IdleWorker EXCEPT
                   !.pc = "lock", !.job = [hash |-> h, ndist |-> n]]]
     \/ \E got \in {"none", "401", "err"} :
          wk' = [wk EXCEPT ![w] = IdleWorker]
  /\ UNCHANGED <<apiVars, mainframe, mstate, scan, fnVars>>

\* match client.get_job(): a job, no job, 401 (reauthorize, continue) or
\* another error; all but the first go round the loop.
GetJob(w) ==
  /\ wk[w].pc = "loop"
  /\ \/ \E h \in 1..mainframe.hash, n \in 0..MaxDists :
          wk' = [wk EXCEPT ![w] = [IdleWorker EXCEPT
                   !.pc = "lock", !.job = [hash |-> h, ndist |-> n]]]
     \/ \E got \in {"none", "401", "err"} :
          wk' = [wk EXCEPT ![w] = IdleWorker]
  /\ UNCHANGED <<apiVars, mainframe, mstate, scan, fnVars>>

\* SyncLock without the mutex: the comparison is made, and the rules are
\* then fetched and stored, with the state left open to the other workers.
SyncLockShared(w) ==
  /\ wk[w].pc = "lock"
  /\ wk' = [wk EXCEPT ![w].mismatch = (mstate.hash # wk[w].job.hash),
                      ![w].pc = IF mstate.hash # wk[w].job.hash
                                  THEN "fetch_rules" ELSE "unlock"]
  /\ UNCHANGED <<apiVars, mainframe, mstate, scan, fnVars>>

\* let mut state = client.state.lock().unwrap(); if state.hash != job.hash
SyncLock(w) ==
  /\ wk[w].pc = "lock"
  /\ mstate.locked_by = NoThread
  /\ mstate' = [mstate EXCEPT !.locked_by = w]
  /\ wk' = [wk EXCEPT ![w].mismatch = (mstate.hash # wk[w].job.hash),
                      ![w].pc = IF mstate.hash # wk[w].job.hash
                                  THEN "fetch_rules" ELSE "unlock"]
  /\ UNCHANGED <<apiVars, mainframe, scan, fnVars>>

\* match client.fetch_rules(): Ok((hash, rules)), 401, or another error.
SyncFetch(w) ==
  /\ wk[w].pc = "fetch_rules"
  /\ \/ wk' = [wk EXCEPT ![w].fetched = mainframe.hash, ![w].pc = "set_hash"]
     \/ wk' = [wk EXCEPT ![w].pc = "reauthorize"]
     \/ wk' = [wk EXCEPT ![w].pc = "unlock"]
  /\ UNCHANGED <<apiVars, mainframe, mstate, scan, fnVars>>

\* client.reauthorize(), then client.fetch_rules() again if it succeeded.
SyncReauthorize(w) ==
  /\ wk[w].pc = "reauthorize"
  /\ \/ wk' = [wk EXCEPT ![w].pc = "fetch_again"]
     \/ wk' = [wk EXCEPT ![w].pc = "unlock"]
  /\ UNCHANGED <<apiVars, mainframe, mstate, scan, fnVars>>

SyncFetchAgain(w) ==
  /\ wk[w].pc = "fetch_again"
  /\ \/ wk' = [wk EXCEPT ![w].fetched = mainframe.hash, ![w].pc = "set_hash"]
     \/ wk' = [wk EXCEPT ![w].pc = "unlock"]
  /\ UNCHANGED <<apiVars, mainframe, mstate, scan, fnVars>>

\* state.set_hash(hash);
SetHash(w) ==
  /\ wk[w].pc = "set_hash"
  /\ mstate' = [mstate EXCEPT !.hash = wk[w].fetched]
  /\ wk' = [wk EXCEPT ![w].pc = "set_rules"]
  /\ UNCHANGED <<apiVars, mainframe, scan, fnVars>>

\* SetRules with the compiled rules dropped instead of stored.
SetRulesDropped(w) ==
  /\ wk[w].pc = "set_rules"
  /\ wk' = [wk EXCEPT ![w].synced = TRUE, ![w].pc = "unlock"]
  /\ UNCHANGED <<apiVars, mainframe, mstate, scan, fnVars>>

\* state.set_rules(rules); a worker that is past its own sync has its rule
\* set replaced under it.
SetRules(w) ==
  /\ wk[w].pc = "set_rules"
  /\ mstate' = [mstate EXCEPT !.rules = wk[w].fetched]
  /\ wk' = [v \in Workers |->
              IF v = w
                THEN [wk[v] EXCEPT !.synced = TRUE, !.pc = "unlock"]
                ELSE IF wk[v].pc \in {"do_job", "submit", "job_err"}
                       THEN [wk[v] EXCEPT !.disturbed = TRUE]
                       ELSE wk[v]]
  /\ UNCHANGED <<apiVars, mainframe, scan, fnVars>>

\* SyncUnlock with the job given up when the sync failed.
SyncUnlockSkipOnFailure(w) ==
  /\ wk[w].pc = "unlock"
  /\ mstate' = [mstate EXCEPT !.locked_by = NoThread]
  /\ wk' = [wk EXCEPT
       ![w].pc = IF wk[w].mismatch /\ ~wk[w].synced
                   THEN "job_end" ELSE "do_job",
       ![w].run = 1, ![w].i = 0]
  /\ UNCHANGED <<apiVars, mainframe, scan, fnVars>>

\* The block ends: the guard is dropped, do_job starts.
SyncUnlock(w) ==
  /\ wk[w].pc = "unlock"
  /\ mstate' = [mstate EXCEPT !.locked_by = NoThread]
  /\ wk' = [wk EXCEPT ![w].pc = "do_job", ![w].run = 1, ![w].i = 0]
  /\ UNCHANGED <<apiVars, mainframe, scan, fnVars>>

\* do_job: let result = scan_distribution(client, download_url)?; the call
\* is given the client only, so it scans with the rules stored at that time.
ScanDistribution(w) ==
  /\ wk[w].pc = "do_job"
  /\ wk[w].i < wk[w].job.ndist
  /\ mstate.locked_by = NoThread
  /\ \/ wk' = [wk EXCEPT ![w].i = @ + 1, ![w].used = @ \cup {mstate.rules}]
     \/ \E e \in {"http401", "http", "other"} :
          wk' = [wk EXCEPT ![w].err = e, ![w].pc = "job_err",
                           ![w].used = @ \cup {mstate.rules}]
  /\ UNCHANGED <<apiVars, mainframe, mstate, scan, fnVars>>

\* do_job: max_by_key(..).unwrap() panics when no distribution was scanned.
PickHighest(w) ==
  /\ wk[w].pc = "do_job"
  /\ wk[w].i = wk[w].job.ndist
  /\ wk' = [wk EXCEPT ![w].pc = IF wk[w].job.ndist = 0
                                  THEN "panicked" ELSE "submit"]
  /\ UNCHANGED <<apiVars, mainframe, mstate, scan, fnVars>>

\* do_job: client.submit_job_results(&body)?; Ok(())
Submit(w) ==
  /\ wk[w].pc = "submit"
  /\ \/ wk' = [wk EXCEPT ![w].submitted = "success", ![w].pc = "job_end"]
     \/ \E e \in {"http401", "http"} :
          wk' = [wk EXCEPT ![w].err = e, ![w].pc = "job_err"]
  /\ UNCHANGED <<apiVars, mainframe, mstate, scan, fnVars>>

\* if let Err(HTTPError) = do_job(..): on 401 reauthorize and run do_job
\* once more; an error of the second run, and any other error, ends the job.
JobError(w) ==
  /\ wk[w].pc = "job_err"
  /\ IF wk[w].err = "http401" /\ wk[w].run = 1
       THEN \/ wk' = [wk EXCEPT ![w].pc = "do_job", ![w].run = 2,
                                ![w].i = 0, ![w].err = "none"]
            \/ wk' = [wk EXCEPT ![w].pc = "job_end"]
       ELSE wk' = [wk EXCEPT ![w].pc = "job_end"]
  /\ UNCHANGED <<apiVars, mainframe, mstate, scan, fnVars>>

\* The loop's next iteration.
JobEnd(w) ==
  /\ wk[w].pc = "job_end"
  /\ wk' = [wk EXCEPT ![w] = IdleWorker]
  /\ UNCHANGED <<apiVars, mainframe, mstate, scan, fnVars>>

\* --------------------------------- scanner.rs, exts.rs: scores; do_job: body
\* The rules of the compiled rule set, in the order scan_mem reports them.
RuleOrder == <<"r1", "r2">>
RuleNames == {RuleOrder[i] : i \in DOMAIN RuleOrder}

\* The `weight` metadata a rule can carry: none, an integer, another type.
Weights == {-1, 0, 2}
NoMeta == [kind |-> "absent", value |-> 0]
WeightMetas ==
  {NoMeta, [kind |-> "String", value |-> 0]}
    \cup [kind : {"Integer"}, value : Weights]

\* A yara Rule as the scorer sees it.
Rule(name, metas) == [identifier |-> name, weight |-> metas[name]]

\* What the files of a distribution can match: any subset of the rules.
Files(n) == UNION {[1..k -> SUBSET RuleNames] : k \in 0..n}

\* The jobs scored: one distribution of up to MaxFiles files, or up to
\* MaxJobDists distributions of up to MaxJobFiles files.
Jobs ==
  {<<d>> : d \in Files(MaxFiles)}
    \cup UNION {[1..k -> Files(MaxJobFiles)] : k \in 0..MaxJobDists}

PkgIdle == [stage |-> "none"]

PkgInit ==
  \E metas \in [RuleNames -> WeightMetas], job \in Jobs :
    pkg = [stage |-> "matched", metas |-> metas, matched |-> job,
           results |-> <<>>, file_scores |-> <<>>, most_malicious |-> <<>>,
           total |-> <<>>, identifiers |-> <<>>, body |-> [tag |-> "none"],
           again |-> [tag |-> "none"]]

RECURSIVE SumSeq(_)
SumSeq(s) == IF s = <<>> THEN 0 ELSE Head(s) + SumSeq(Tail(s))

RECURSIVE SumScores(_)
SumScores(S) ==
  IF S = {} THEN 0
  ELSE LET r == CHOOSE x \in S : TRUE IN r.score + SumScores(S \ {r})

\* get_rule_weight with a rule without an integer weight counted as 1.
get_rule_weight_default_one(rule) ==
  IF rule.weight.kind = "Integer" THEN rule.weight.value ELSE 1

\* RuleExt::get_rule_weight
get_rule_weight(rule) ==
  IF rule.weight.kind = "Integer" THEN rule.weight.value ELSE 0

\* impl From<Rule> for RuleScore
RuleScoreFrom(rule) ==
  [name |-> rule.identifier, score |-> get_rule_weight(rule)]

\* The tail of scan_buf: .map(RuleScore::from).collect(), FileScanResult::new.
FileScanResult(path, matched, metas) ==
  LET hits == SelectSeq(RuleOrder, LAMBDA r : r \in matched) IN
  [path |-> path,
   rules |-> [i \in DOMAIN hits |-> RuleScoreFrom(Rule(hits[i], metas))]]

\* FileScanResult::calculate_score
calculate_score(file) ==
  SumSeq([i \in DOMAIN file.rules |-> file.rules[i].score])

\* Iterator::max_by_key over a Vec, as an index: 0 for None; of several
\* equally maximum elements the last one is returned.
MaxByKey(keys) ==
  IF keys = <<>> THEN 0
  ELSE CHOOSE i \in DOMAIN keys :
         \A j \in DOMAIN keys :
           /\ keys[j] <= keys[i]
           /\ j > i => keys[j] < keys[i]

\* DistributionScanResults::get_most_malicious_file, as an index into the
\* distribution's files.
get_most_malicious_file(dist) ==
  MaxByKey([i \in DOMAIN dist |-> calculate_score(dist[i])])

\* DistributionScanResults::get_matched_rules
get_matched_rules(dist) ==
  UNION {{dist[i].rules[j] : j \in DOMAIN dist[i].rules} : i \in DOMAIN dist}

\* The total with every file's score added up, duplicates included.
get_total_score_per_file(dist) ==
  SumSeq([i \in DOMAIN dist |-> calculate_score(dist[i])])

\* DistributionScanResults::get_total_score
get_total_score(dist) == SumScores(get_matched_rules(dist))

\* DistributionScanResults::get_matched_rule_identifiers
get_matched_rule_identifiers(dist) ==
  {rule.name : rule \in get_matched_rules(dist)}

\* do_job: the distribution with the highest total score.
highest_score_distribution(results) ==
  MaxByKey([d \in DOMAIN results |-> get_total_score(results[d])])

NoUrl == [present |-> FALSE, dist |-> 0, file |-> 0]

\* do_job: Some(url) if the highest distribution has a most malicious file.
inspector_url(results, d) ==
  IF get_most_malicious_file(results[d]) # 0
    THEN [present |-> TRUE, dist |-> d,
          file |-> get_most_malicious_file(results[d])]
    ELSE NoUrl

\* The score taken from the most malicious file alone.
BodyScoreOfFile(results, d) ==
  IF inspector_url(results, d).present
    THEN calculate_score(results[d][get_most_malicious_file(results[d])])
    ELSE 0

\* do_job: score of the body.
BodyScore(results, d) ==
  IF inspector_url(results, d).present
    THEN get_total_score(results[d])
    ELSE 0

\* The scanner's results for every file of the job.
CollectResults ==
  /\ pkg.stage = "matched"
  /\ pkg' = [pkg EXCEPT
       !.stage = "collected",
       !.results = [d \in DOMAIN pkg.matched |->
                      [f \in DOMAIN pkg.matched[d] |->
                         FileScanResult(f, pkg.matched[d][f], pkg.metas)]]]
  /\ UNCHANGED <<apiVars, mainframe, mstate, wk, scan, gate, insp, reauth, fetch, dists, timer>>

\* The per-distribution figures of DistributionScanResults.
Measure ==
  /\ pkg.stage = "collected"
  /\ LET res == pkg.results IN
     pkg' = [pkg EXCEPT
       !.stage = "measured",
       !.file_scores = [d \in DOMAIN res |->
                          [f \in DOMAIN res[d] |-> calculate_score(res[d][f])]],
       !.most_malicious = [d \in DOMAIN res |->
                             get_most_malicious_file(res[d])],
       !.total = [d \in DOMAIN res |-> get_total_score(res[d])],
       !.identifiers = [d \in DOMAIN res |->
                          get_matched_rule_identifiers(res[d])]]
  /\ UNCHANGED <<apiVars, mainframe, mstate, wk, scan, gate, insp, reauth, fetch, dists, timer>>

\* The orders in which iterating a HashSet can yield its elements: the
\* hasher is seeded per process, so every order is possible.
HashOrders(S) ==
  {vec \in [1..Cardinality(S) -> S] : {vec[i] : i \in DOMAIN vec} = S}

\* SubmitJobResultsBody as do_job builds it; vec is the Vec that
\* get_matched_rule_identifiers collected from the HashSet.
SubmitJobResultsBody(results, d, vec) ==
  [tag |-> "success",
   highest |-> d,
   score |-> BodyScore(results, d),
   inspector_url |-> inspector_url(results, d),
   rules_matched |-> get_matched_rule_identifiers(results[d]),
   rules_matched_vec |-> vec]

\* do_job after the scan loop: pick the highest distribution (unwrap panics
\* when the job has none) and build SubmitJobResultsBody.
DoJob ==
  /\ pkg.stage = "measured"
  /\ LET d == highest_score_distribution(pkg.results) IN
     IF d = 0
       THEN pkg' = [pkg EXCEPT !.stage = "done", !.body = [tag |-> "panic"]]
       ELSE \E vec \in HashOrders(
                         get_matched_rule_identifiers(pkg.results[d])) :
              pkg' = [pkg EXCEPT
                !.stage = "done",
                !.body = SubmitJobResultsBody(pkg.results, d, vec)]
  /\ UNCHANGED <<apiVars, mainframe, mstate, wk, scan, gate, insp, reauth, fetch, dists, timer>>

\* do_job of another run of the client on the same job with the same rules.
DoJobAgain ==
  /\ pkg.stage = "done"
  /\ LET d == highest_score_distribution(pkg.results) IN
     IF d = 0
       THEN pkg' = [pkg EXCEPT !.stage = "again", !.again = [tag |-> "panic"]]
       ELSE \E vec \in HashOrders(
                         get_matched_rule_identifiers(pkg.results[d])) :
              pkg' = [pkg EXCEPT
                !.stage = "again",
                !.again = SubmitJobResultsBody(pkg.results, d, vec)]
  /\ UNCHANGED <<apiVars, mainframe, mstate, wk, scan, gate, insp, reauth, fetch, dists, timer>>

GateIdle == [stage |-> "none"]
InspIdle == [stage |-> "none"]

ReauthIdle == [pc |-> "none"]
FetchIdle == [pc |-> "none"]
DistsIdle == [pc |-> "none"]

\* Neither a fetch nor a scan_all_distributions call is under way.
TimerIdle == [pc |-> "none"]

NoDownload == fetch = FetchIdle /\ dists = DistsIdle /\ timer = TimerIdle

FnIdle ==
  pkg = PkgIdle /\ gate = GateIdle /\ insp = InspIdle /\ reauth = ReauthIdle
  /\ NoDownload

InitPackage ==
  /\ ApiInit /\ WorkerInit
  /\ scan = [kind |-> "none"]
  /\ PkgInit
  /\ gate = GateIdle /\ insp = InspIdle /\ reauth = ReauthIdle
  /\ NoDownload

\* ------------------------------- exts.rs, scan_buf: the filetype filter
\* Strings are sequences of characters.
PathChars == {"a", "b", "."}
TypeChars == PathChars \cup {" "}

Strings(chars, n) == UNION {[1..k -> chars] : k \in 0..n}

\* The `filetype` metadata of a rule: none, a string, or another type.
FiletypeMetas ==
  {[kind |-> "absent", value |-> <<>>], [kind |-> "Integer", value |-> <<>>]}
    \cup [kind : {"String"}, value : Strings(TypeChars, MaxTypeLen)]

GateInit ==
  \E meta \in FiletypeMetas, path \in Strings(PathChars, MaxPathLen) :
    gate = [stage |-> "matched", filetype |-> meta, path |-> path,
            filetypes |-> [some |-> FALSE, list |-> <<>>], kept |-> FALSE]

\* str::split(' '): the pieces between the spaces, empty ones included.
RECURSIVE Split(_)
Split(s) ==
  IF \A i \in DOMAIN s : s[i] # " "
    THEN <<s>>
    ELSE LET k == CHOOSE i \in DOMAIN s :
                    s[i] = " " /\ \A j \in 1..(i - 1) : s[j] # " "
         IN <<SubSeq(s, 1, k - 1)>> \o Split(SubSeq(s, k + 1, Len(s)))

\* RuleExt::get_filetypes
get_filetypes(meta) ==
  IF meta.kind = "String"
    THEN [some |-> TRUE, list |-> Split(meta.value)]
    ELSE [some |-> FALSE, list |-> <<>>]

\* Path::extension().unwrap_or_default() of a one-component path: what
\* follows the last dot of the file name; empty when there is no file name,
\* no dot, or only a leading dot.
Extension(path) ==
  IF path \in {<<>>, <<".">>, <<".", ".">>}
    THEN <<>>
    ELSE LET dots == {i \in DOMAIN path : path[i] = "."} IN
         IF dots = {} \/ dots = {1}
           THEN <<>>
           ELSE LET k == CHOOSE i \in dots : \A j \in dots : j <= i
                IN SubSeq(path, k + 1, Len(path))

\* The filter closure of scan_buf: no filetypes, or one of them equals the
\* extension of the path.
KeepsMatch(filetypes, path) ==
  \/ ~filetypes.some
  \/ filetypes.list = <<>>
  \/ \E i \in DOMAIN filetypes.list : Extension(path) = filetypes.list[i]

GetFiletypes ==
  /\ gate.stage = "matched"
  /\ gate' = [gate EXCEPT !.stage = "typed",
                          !.filetypes = get_filetypes(gate.filetype)]
  /\ UNCHANGED <<apiVars, mainframe, mstate, wk, scan, pkg, insp, reauth, fetch, dists, timer>>

FilterMatch ==
  /\ gate.stage = "typed"
  /\ gate' = [gate EXCEPT !.stage = "filtered",
                          !.kept = KeepsMatch(gate.filetypes, gate.path)]
  /\ UNCHANGED <<apiVars, mainframe, mstate, wk, scan, pkg, insp, reauth, fetch, dists, timer>>

InitFiletype ==
  /\ ApiInit /\ WorkerInit
  /\ scan = [kind |-> "none"]
  /\ pkg = PkgIdle /\ insp = InspIdle /\ reauth = ReauthIdle
  /\ NoDownload
  /\ GateInit

\* ---------------------------------------- utils.rs: create_inspector_url
\* A URL is its scheme, its host and the segments of its path: the path is
\* "/" followed by the segments joined with "/", so a last segment "" is a
\* trailing slash.
Schemes == {"https", "http"}
Hosts == {"files.pythonhosted.org", "inspector.pypi.io"}
Names == {"numpy", "project"}
Versions == {"1.24.3"}
Segments == {"packages", "numpy-1.24.3.whl", ""} \cup Names \cup Versions

Paths == UNION {[1..k -> Segments] : k \in 1..MaxSegments}

Url(scheme, host, path) == [scheme |-> scheme, host |-> host, path |-> path]

NoUrlYet == Url("", "", <<>>)

InspInit ==
  \E s \in Schemes, h \in Hosts, p \in Paths, n \in Names, v \in Versions :
    insp = [stage |-> "given", name |-> n, version |-> v,
            download_url |-> Url(s, h, p),
            once |-> NoUrlYet, twice |-> NoUrlYet]

\* create_inspector_url with the format string lacking its last slash.
create_inspector_url_unslashed(name, version, download_url) ==
  Url(download_url.scheme, "inspector.pypi.io",
      <<"project", name, version>> \o download_url.path)

\* create_inspector_url: new_path is "project/{name}/{version}/{path without
\* its leading slash}/"; set_host and set_path on a clone of the URL.
create_inspector_url(name, version, download_url) ==
  Url(download_url.scheme, "inspector.pypi.io",
      <<"project", name, version>> \o download_url.path \o <<"">>)

Rewrite ==
  /\ insp.stage = "given"
  /\ insp' = [insp EXCEPT
       !.stage = "once",
       !.once = create_inspector_url(insp.name, insp.version,
                                     insp.download_url)]
  /\ UNCHANGED <<apiVars, mainframe, mstate, wk, scan, pkg, gate, reauth, fetch, dists, timer>>

\* The same call on the URL the first call returned.
RewriteAgain ==
  /\ insp.stage = "once"
  /\ insp' = [insp EXCEPT
       !.stage = "twice",
       !.twice = create_inspector_url(insp.name, insp.version, insp.once)]
  /\ UNCHANGED <<apiVars, mainframe, mstate, wk, scan, pkg, gate, reauth, fetch, dists, timer>>

InitUrl ==
  /\ ApiInit /\ WorkerInit
  /\ scan = [kind |-> "none"]
  /\ pkg = PkgIdle /\ gate = GateIdle /\ reauth = ReauthIdle
  /\ NoDownload
  /\ InspInit

\* ------------------------------------------- api.rs: reauthenticate's loop
\* The literals of the backoff.
base == 2
initial_timeout == 1
backoff_tries == 10
backoff_ceiling == 600

RECURSIVE powf(_, _)
powf(b, n) == IF n = 0 THEN 1 ELSE b * powf(b, n - 1)

NoToken == 0
NoResponse == [ok |-> FALSE, access_token |-> NoToken]

\* One call of reauthenticate by a thread that holds the write lock; the auth
\* endpoint is down or up when the call starts.
ReauthInit ==
  \E t \in Threads, up \in BOOLEAN :
    reauth = [pc |-> "fetch", caller |-> t, up |-> up, tries |-> 0,
              r |-> NoResponse, slept |-> <<>>, access_token |-> NoToken]

InitRefresh ==
  /\ ApiInit /\ WorkerInit
  /\ scan = [kind |-> "none"]
  /\ pkg = PkgIdle /\ gate = GateIdle /\ insp = InspIdle
  /\ NoDownload
  /\ ReauthInit

\* The auth endpoint comes back, and stays.
EndpointRecovers ==
  /\ reauth.pc \in {"fetch", "sleep"}
  /\ ~reauth.up
  /\ reauth' = [reauth EXCEPT !.up = TRUE]
  /\ UNCHANGED <<apiVars, mainframe, mstate, wk, scan, pkg, gate, insp, fetch, dists, timer>>

\* The sleep time with the ceiling starting one try late.
sleep_time_late_ceiling(tries) ==
  IF tries <= backoff_tries
    THEN initial_timeout * powf(base, tries)
    ELSE backoff_ceiling

\* let sleep_time = if tries < 10 { 1.0 * 2^tries } else { 600 }
sleep_time(tries) ==
  IF tries < backoff_tries
    THEN initial_timeout * powf(base, tries)
    ELSE backoff_ceiling

\* The loop giving up with an error after three failed tries.
FetchAccessTokenLimited ==
  /\ reauth.pc = "fetch"
  /\ \/ /\ reauth.up
        /\ \E g \in Tokens :
             reauth' = [reauth EXCEPT
               !.r = [ok |-> TRUE, access_token |-> g],
               !.access_token = g,
               !.pc = "returned"]
     \/ /\ ~reauth.up
        /\ reauth.tries < 3
        /\ reauth' = [reauth EXCEPT !.r = NoResponse, !.pc = "sleep"]
     \/ /\ ~reauth.up
        /\ reauth.tries >= 3
        /\ reauth' = [reauth EXCEPT !.r = NoResponse, !.pc = "returned"]
  /\ UNCHANGED <<apiVars, mainframe, mstate, wk, scan, pkg, gate, insp, fetch, dists, timer>>

\* let r = fetch_access_token(..); match r: Ok takes the token and breaks,
\* Err goes on to the sleep. The failures are counted up to MaxFailures.
FetchAccessToken ==
  /\ reauth.pc = "fetch"
  /\ \/ /\ reauth.up
        /\ \E g \in Tokens :
             reauth' = [reauth EXCEPT
               !.r = [ok |-> TRUE, access_token |-> g],
               !.access_token = g,
               !.pc = "returned"]
     \/ /\ ~reauth.up
        /\ reauth.tries < MaxFailures
        /\ reauth' = [reauth EXCEPT !.r = NoResponse, !.pc = "sleep"]
  /\ UNCHANGED <<apiVars, mainframe, mstate, wk, scan, pkg, gate, insp, fetch, dists, timer>>

\* std::thread::sleep(sleep_time); tries += 1; and around the loop.
Backoff ==
  /\ reauth.pc = "sleep"
  /\ reauth' = [reauth EXCEPT
       !.slept = Append(@, sleep_time(reauth.tries)),
       !.tries = @ + 1,
       !.pc = "fetch"]
  /\ UNCHANGED <<apiVars, mainframe, mstate, wk, scan, pkg, gate, insp, fetch, dists, timer>>

\* ---------------------- client.rs: AuthenticationState and the refresh timer
\* The lifetimes an auth response carries (expires_in: u32, in seconds),
\* one below and one above the margin of the timer.
ExpiresIns == {4, 12}

\* The timer refreshes this many seconds before the token expires.
refresh_margin == 10

\* The clock runs in seconds up to MaxClock.
MaxClock == 20

NoRequest == [sent |-> FALSE, issued |-> 0, expired |-> FALSE]

\* AuthenticationState::from(authentication_response), with the time of
\* the installation.
AuthenticationState(now, expires_in) ==
  [issued |-> now, expires_in |-> expires_in]

\* The client right after construction: a token was installed at time 0 and
\* the timer is about to compute its first sleep.
TimerInit ==
  \E e \in ExpiresIns, up \in BOOLEAN :
    timer = [pc |-> "arm", now |-> 0,
             authentication |-> AuthenticationState(0, e),
             wake |-> 0, up |-> up, tries |-> 0, until |-> 0,
             request |-> NoRequest]

InitTimer ==
  /\ ApiInit /\ WorkerInit
  /\ scan = [kind |-> "none"]
  /\ pkg = PkgIdle /\ gate = GateIdle /\ insp = InspIdle /\ reauth = ReauthIdle
  /\ fetch = FetchIdle /\ dists = DistsIdle
  /\ TimerInit

TimerUnchanged ==
  UNCHANGED <<apiVars, mainframe, mstate, wk, scan,
              pkg, gate, insp, reauth, fetch, dists>>

\* The timer computes its sleep, expires_in - 10 s, on Durations: the
\* subtraction panics when expires_in is shorter than the margin.
ArmTimer ==
  /\ timer.pc = "arm"
  /\ IF timer.authentication.expires_in < refresh_margin
       THEN timer' = [timer EXCEPT !.pc = "panicked"]
       ELSE timer' = [timer EXCEPT
              !.pc = "sleeping",
              !.wake = timer.now
                         + (timer.authentication.expires_in - refresh_margin)]
  /\ TimerUnchanged

\* The sleep ends and the timer calls reauthenticate, which takes the write
\* lock of the authentication state.
TimerFires ==
  /\ timer.pc = "sleeping"
  /\ timer.now >= timer.wake
  /\ timer' = [timer EXCEPT !.pc = "fetch", !.tries = 0]
  /\ TimerUnchanged

\* match fetch_access_token(..).await: Ok breaks out of the loop and
\* *lock = AuthenticationState::from(authentication_response); Err sleeps
\* sleep_time seconds, tries += 1.
TimerFetchAccessToken ==
  /\ timer.pc = "fetch"
  /\ \/ /\ timer.up
        /\ \E e \in ExpiresIns :
             timer' = [timer EXCEPT
               !.authentication = AuthenticationState(timer.now, e),
               !.pc = "arm"]
     \/ /\ ~timer.up
        /\ timer' = [timer EXCEPT
             !.pc = "backoff",
             !.until = timer.now + sleep_time(timer.tries),
             !.tries = @ + 1]
  /\ TimerUnchanged

\* tokio::time::sleep(sleep_time) is over; around the loop.
TimerBackoffEnds ==
  /\ timer.pc = "backoff"
  /\ timer.now >= timer.until
  /\ timer' = [timer EXCEPT !.pc = "fetch"]
  /\ TimerUnchanged

\* The auth endpoint goes down or comes back.
TimerEndpointFlips ==
  /\ timer.pc # "none"
  /\ timer' = [timer EXCEPT !.up = ~@]
  /\ TimerUnchanged

\* A second passes. Computing the sleep and one request to the auth endpoint
\* take no time, and a sleep ends on time.
Tick ==
  /\ timer.pc \in {"sleeping", "backoff", "panicked"}
  /\ timer.now < MaxClock
  /\ timer.pc = "sleeping" => timer.now < timer.wake
  /\ timer.pc = "backoff" => timer.now < timer.until
  /\ timer' = [timer EXCEPT !.now = @ + 1]
  /\ TimerUnchanged

\* A worker sends an authenticated request with the stored token; while
\* reauthenticate holds the write lock the worker waits for the token.
AuthenticatedRequest ==
  /\ timer.pc \in {"sleeping", "panicked"}
  /\ timer' = [timer EXCEPT !.request =
       [sent |-> TRUE,
        issued |-> timer.authentication.issued,
        expired |-> timer.now >= timer.authentication.issued
                                  + timer.authentication.expires_in]]
  /\ TimerUnchanged

NextTimer ==
  \/ ArmTimer
  \/ TimerFires
  \/ TimerFetchAccessToken
  \/ TimerBackoffEnds
  \/ TimerEndpointFlips
  \/ Tick
  \/ AuthenticatedRequest

SpecTimer == InitTimer /\ [][NextTimer]_vars

\* ------------------------------------------- scanner.rs: scanning an archive
\* The declared sizes an entry can have: below, at and above the limit.
Sizes == {max_scan_size - 1, max_scan_size, max_scan_size + 1}

\* What the reader yields for one entry: a parse error, or a file with its
\* declared size, whether its path is usable (tar: path() is Ok; zip:
\* enclosed_name() is Some), whether the declared path is absolute or climbs
\* out with "..", whether reading or scanning it fails, and the rules its
\* contents match. What is never looked at is left at its default: the
\* contents of a file that is not read, the matches of a failing scan.
BadEntry ==
  [bad |-> TRUE, size |-> 0, path_ok |-> FALSE, unsafe |-> FALSE,
   fault |-> "none", matches |-> {}]

FileEntries ==
  {e \in [bad : {FALSE}, size : Sizes, path_ok : BOOLEAN, unsafe : BOOLEAN,
          fault : {"none", "read", "scan"}, matches : {{}, {"r1"}}] :
     /\ (~e.path_ok \/ e.size > max_scan_size)
          => (e.fault = "none" /\ e.matches = {})
     /\ e.fault # "none" => e.matches = {}}

Entries == {BadEntry} \cup FileEntries

\* ZipFile::enclosed_name is None for an absolute name and for one that
\* climbs out of the archive root.
ZipEntries == {e \in Entries : e.unsafe => ~e.path_ok}

Archives == UNION {[1..n -> Entries] : n \in 0..MaxEntries}

ZipArchives == UNION {[1..n -> ZipEntries] : n \in 0..MaxEntries}

\* The rule set the archive is scanned with: every rule weighs 2.
ScanMetas == [r \in RuleNames |-> [kind |-> "Integer", value |-> 2]]

Running == [tag |-> "running", reason |-> "none", path |-> 0, results |-> <<>>]

OkResult(results) ==
  [tag |-> "Ok", reason |-> "none", path |-> 0, results |-> results]

ErrResult(reason, i) ==
  [tag |-> "Err", reason |-> reason, path |-> i, results |-> <<>>]

NewScan(k, a) ==
  [kind |-> k, entries |-> a, idx |-> 1, file_scan_results |-> <<>>,
   visited |-> {}, read |-> {}, scanned |-> {}, ret |-> Running]

ScanInit ==
  \/ \E a \in Archives : scan = NewScan("targz", a)
  \/ \E a \in ZipArchives : scan = NewScan("zip", a)

InitScan == ApiInit /\ WorkerInit /\ ScanInit /\ FnIdle

\* The limit test with the bound excluded.
FitsScanSizeStrict(size) == size < max_scan_size

\* entry.size() <= APP_CONFIG.max_scan_size
FitsScanSize(size) == size <= max_scan_size

\* ScanEntry with a result pushed only for a file that matched a rule.
ScanEntryDropUnmatched(i) ==
  LET e == scan.entries[i] IN
  IF FitsScanSize(e.size)
    THEN IF e.fault = "read"
           THEN [scan EXCEPT !.visited = @ \cup {i}, !.read = @ \cup {i},
                             !.ret = ErrResult("io", i)]
           ELSE IF e.fault = "scan"
                  THEN [scan EXCEPT !.visited = @ \cup {i},
                                    !.read = @ \cup {i},
                                    !.scanned = @ \cup {i},
                                    !.ret = ErrResult("scan", i)]
                  ELSE [scan EXCEPT !.visited = @ \cup {i},
                                    !.read = @ \cup {i},
                                    !.scanned = @ \cup {i},
                                    !.file_scan_results =
                                       IF e.matches = {} THEN @
                                       ELSE Append(@, FileScanResult(
                                              i, e.matches, ScanMetas)),
                                    !.idx = i + 1]
    ELSE [scan EXCEPT !.visited = @ \cup {i},
                      !.ret = ErrResult("too_large", i)]

\* The body of both loops for an entry with a usable path: the size test,
\* read_to_end(..)?, scan_buf(..)?, file_scan_results.push(result). The path
\* of a result is the entry's, which the entry's index stands for.
ScanEntry(i) ==
  LET e == scan.entries[i] IN
  IF FitsScanSize(e.size)
    THEN IF e.fault = "read"
           THEN [scan EXCEPT !.visited = @ \cup {i}, !.read = @ \cup {i},
                             !.ret = ErrResult("io", i)]
           ELSE IF e.fault = "scan"
                  THEN [scan EXCEPT !.visited = @ \cup {i},
                                    !.read = @ \cup {i},
                                    !.scanned = @ \cup {i},
                                    !.ret = ErrResult("scan", i)]
                  ELSE [scan EXCEPT !.visited = @ \cup {i},
                                    !.read = @ \cup {i},
                                    !.scanned = @ \cup {i},
                                    !.file_scan_results =
                                       Append(@, FileScanResult(
                                                   i, e.matches, ScanMetas)),
                                    !.idx = i + 1]
    ELSE [scan EXCEPT !.visited = @ \cup {i},
                      !.ret = ErrResult("too_large", i)]

\* scan_targz: one turn of for entry in tar.entries()?.filter_map(Result::ok).
\* An entry that fails to parse is dropped by the filter; the iterator then
\* goes on to the next entry or is finished.
ScanTargzEntry ==
  /\ scan.kind = "targz"
  /\ scan.ret.tag = "running"
  /\ scan.idx <= Len(scan.entries)
  /\ LET i == scan.idx
         e == scan.entries[i] IN
       IF e.bad
         THEN \/ scan' = [scan EXCEPT !.visited = @ \cup {i}, !.idx = i + 1]
              \/ scan' = [scan EXCEPT !.visited = @ \cup {i},
                                      !.ret = OkResult(scan.file_scan_results)]
         ELSE IF ~e.path_ok
                THEN scan' = [scan EXCEPT !.visited = @ \cup {i},
                                          !.ret = ErrResult("path", i)]
                ELSE scan' = ScanEntry(i)
  /\ UNCHANGED <<apiVars, mainframe, mstate, wk, fnVars>>

\* scan_targz: the iterator is exhausted, Ok(file_scan_results).
ScanTargzDone ==
  /\ scan.kind = "targz"
  /\ scan.ret.tag = "running"
  /\ scan.idx > Len(scan.entries)
  /\ scan' = [scan EXCEPT !.ret = OkResult(scan.file_scan_results)]
  /\ UNCHANGED <<apiVars, mainframe, mstate, wk, fnVars>>

\* scan_zip: one turn of while let Ok(Some(file)) =
\* read_zipfile_from_stream(source). A parse error ends the loop like the end
\* of the stream; an entry without an enclosed name is skipped.
ScanZipEntry ==
  /\ scan.kind = "zip"
  /\ scan.ret.tag = "running"
  /\ scan.idx <= Len(scan.entries)
  /\ LET i == scan.idx
         e == scan.entries[i] IN
       IF e.bad
         THEN scan' = [scan EXCEPT !.visited = @ \cup {i},
                                   !.ret = OkResult(scan.file_scan_results)]
         ELSE IF ~e.path_ok
                THEN scan' = [scan EXCEPT !.visited = @ \cup {i},
                                          !.idx = i + 1]
                ELSE scan' = ScanEntry(i)
  /\ UNCHANGED <<apiVars, mainframe, mstate, wk, fnVars>>

\* scan_zip: Ok(None) ends the loop, Ok(file_scan_results).
ScanZipDone ==
  /\ scan.kind = "zip"
  /\ scan.ret.tag = "running"
  /\ scan.idx > Len(scan.entries)
  /\ scan' = [scan EXCEPT !.ret = OkResult(scan.file_scan_results)]
  /\ UNCHANGED <<apiVars, mainframe, mstate, wk, fnVars>>

\* ------------------------------------ api.rs: fetch_tarball, fetch_zipfile
\* The answers to a download: the request fails, or a response arrives with
\* a status and a body. The body has a length (for .tar.gz the length of the
\* decompressed stream, which is what take() counts there) and is an archive
\* of the kind asked for or something else, as the page of an error status
\* usually is; cut_opens says whether the first max_scan_size bytes of a
\* longer zip body can still be opened as a zip archive.
Statuses == {200, 404}
BodyLens == 0..(max_scan_size + 2)

Bodies ==
  {b \in [len : BodyLens, format : {"archive", "other"}, cut_opens : BOOLEAN] :
     b.cut_opens => (b.format = "archive" /\ b.len > max_scan_size)}

NoBody == [len |-> 0, format |-> "other", cut_opens |-> FALSE]

Downloads ==
  {[sent |-> FALSE, status |-> 0, body |-> NoBody]}
    \cup [sent : {TRUE}, status : Statuses, body : Bodies]

FetchRunning == [tag |-> "running", error |-> "none", bytes |-> 0]

FetchInit ==
  \E k \in {"targz", "zip"}, d \in Downloads :
    fetch = [pc |-> "send", kind |-> k, answer |-> d, buffered |-> 0,
             ret |-> FetchRunning]

InitFetch ==
  /\ ApiInit /\ WorkerInit
  /\ scan = [kind |-> "none"]
  /\ pkg = PkgIdle /\ gate = GateIdle /\ insp = InspIdle /\ reauth = ReauthIdle
  /\ dists = DistsIdle /\ timer = TimerIdle
  /\ FetchInit

FetchErr(e) == [tag |-> "Err", error |-> e, bytes |-> 0]

\* let response = http_client.get(download_url).send()?;
SendRequest ==
  /\ fetch.pc = "send"
  /\ fetch' = IF fetch.answer.sent
                THEN [fetch EXCEPT !.pc = "read"]
                ELSE [fetch EXCEPT !.pc = "done", !.ret = FetchErr("http")]
  /\ UNCHANGED <<apiVars, mainframe, mstate, wk, scan,
                 pkg, gate, insp, reauth, dists, timer>>

\* What read_to_end has to read when nothing limits it.
WholeBody == fetch.answer.body.len

\* .take(APP_CONFIG.max_scan_size): the reader ends after that many bytes.
Taken ==
  IF fetch.answer.body.len < max_scan_size
    THEN fetch.answer.body.len ELSE max_scan_size

\* read_to_end(cursor.get_mut())?: one more byte into the buffer. A .tar.gz
\* body that is not gzip fails in the decoder with an io error.
ReadToEnd ==
  /\ fetch.pc = "read"
  /\ IF fetch.kind = "targz" /\ fetch.answer.body.format = "other"
       THEN fetch' = [fetch EXCEPT !.pc = "done", !.ret = FetchErr("io")]
       ELSE IF fetch.buffered < Taken
              THEN fetch' = [fetch EXCEPT !.buffered = @ + 1]
              ELSE fetch' = [fetch EXCEPT !.pc = "open"]
  /\ UNCHANGED <<apiVars, mainframe, mstate, wk, scan,
                 pkg, gate, insp, reauth, dists, timer>>

\* Ok(tar::Archive::new(cursor)), which looks at nothing, or
\* Ok(zip::ZipArchive::new(cursor)?), which needs the directory at the end
\* of the archive.
OpenArchive ==
  /\ fetch.pc = "open"
  /\ LET b == fetch.answer.body
         cut == b.len > fetch.buffered IN
       IF fetch.kind = "zip"
            /\ (b.format = "other" \/ (cut /\ ~b.cut_opens))
         THEN fetch' = [fetch EXCEPT !.pc = "done", !.ret = FetchErr("zip")]
         ELSE fetch' = [fetch EXCEPT
                !.pc = "done",
                !.ret = [tag |-> "Ok", error |-> "none",
                         bytes |-> fetch.buffered]]
  /\ UNCHANGED <<apiVars, mainframe, mstate, wk, scan,
                 pkg, gate, insp, reauth, dists, timer>>

\* --------------------------------- scanner.rs: scan_all_distributions
\* What happens to one distribution of the job: its URL does not parse, its
\* download fails, its scan fails, or it is downloaded and scanned.
Fates == {"bad_url", "fetch_err", "scan_err", "scanned"}

Distributions == [suffix : {".tar.gz", ".whl"}, fate : Fates]

DistJobs == UNION {[1..n -> Distributions] : n \in 0..MaxJobDists}

DistsInit ==
  \E job \in DistJobs :
    dists = [pc |-> "next", job |-> job, downloaded |-> <<>>,
             scanned |-> <<>>, distribution_scan_results |-> <<>>,
             ret |-> [tag |-> "running", at |-> 0, results |-> <<>>]]

InitDists ==
  /\ ApiInit /\ WorkerInit
  /\ scan = [kind |-> "none"]
  /\ pkg = PkgIdle /\ gate = GateIdle /\ insp = InspIdle /\ reauth = ReauthIdle
  /\ fetch = FetchIdle /\ timer = TimerIdle
  /\ DistsInit

\* The distribution the loop is at: the one after those already pushed.
CurrentDistribution == Len(dists.distribution_scan_results) + 1

\* for distribution in &job.distributions: distribution.parse().unwrap(),
\* then fetch_tarball(..)? or fetch_zipfile(..)? by the suffix.
FetchDistribution ==
  /\ dists.pc = "next"
  /\ CurrentDistribution <= Len(dists.job)
  /\ LET i == CurrentDistribution
         d == dists.job[i] IN
       IF d.fate = "bad_url"
         THEN dists' = [dists EXCEPT
                !.pc = "done",
                !.ret = [tag |-> "panic", at |-> i, results |-> <<>>]]
         ELSE IF d.fate = "fetch_err"
                THEN dists' = [dists EXCEPT
                       !.pc = "done",
                       !.downloaded = Append(@, i),
                       !.ret = [tag |-> "Err", at |-> i, results |-> <<>>]]
                ELSE dists' = [dists EXCEPT
                       !.pc = "fetched",
                       !.downloaded = Append(@, i)]
  /\ UNCHANGED <<apiVars, mainframe, mstate, wk, scan,
                 pkg, gate, insp, reauth, fetch, timer>>

\* ScanFetched going on to the next distribution when a scan fails.
ScanFetchedSkipFailed ==
  /\ dists.pc = "fetched"
  /\ LET i == CurrentDistribution
         d == dists.job[i] IN
       dists' = [dists EXCEPT
         !.pc = "next",
         !.scanned = Append(@, i),
         !.distribution_scan_results = Append(@, i)]
  /\ UNCHANGED <<apiVars, mainframe, mstate, wk, scan,
                 pkg, gate, insp, reauth, fetch, timer>>

\* scan_targz(&mut tar, rules)? or scan_zip(&mut response, rules)?, then
\* distribution_scan_results.push(DistributionScanResults::new(..)).
ScanFetched ==
  /\ dists.pc = "fetched"
  /\ LET i == CurrentDistribution
         d == dists.job[i] IN
       IF d.fate = "scan_err"
         THEN dists' = [dists EXCEPT
                !.pc = "done",
                !.scanned = Append(@, i),
                !.ret = [tag |-> "Err", at |-> i, results |-> <<>>]]
         ELSE dists' = [dists EXCEPT
                !.pc = "next",
                !.scanned = Append(@, i),
                !.distribution_scan_results = Append(@, i)]
  /\ UNCHANGED <<apiVars, mainframe, mstate, wk, scan,
                 pkg, gate, insp, reauth, fetch, timer>>

\* The loop is over: Ok(distribution_scan_results).
AllDistributionsScanned ==
  /\ dists.pc = "next"
  /\ CurrentDistribution > Len(dists.job)
  /\ dists' = [dists EXCEPT
       !.pc = "done",
       !.ret = [tag |-> "Ok", at |-> 0,
                results |-> dists.distribution_scan_results]]
  /\ UNCHANGED <<apiVars, mainframe, mstate, wk, scan,
                 pkg, gate, insp, reauth, fetch, timer>>

\* ------------------------------------------------------------------- Spec
ScanIdle == [kind |-> "none"]

Init == ApiInit /\ WorkerInit /\ scan = ScanIdle /\ FnIdle

Next ==
  \/ Expire
  \/ Publish
  \/ \E t \in Threads, o \in AuthOps : Call(t, o)
  \/ \E t \in Threads : AcquireRead(t)
  \/ \E t \in Threads : FirstAttempt(t)
  \/ \E t \in Threads : AcquireWrite(t)
  \/ \E t \in Threads : Reauthenticate(t)
  \/ \E t \in Threads : Install(t)
  \/ \E t \in Threads : SecondAttempt(t)
  \/ \E t \in Threads : Return(t)
  \/ \E t \in Threads : CallUpdateRules(t)
  \/ \E t \in Threads : UpdateRulesLock(t)
  \/ \E t \in Threads : UpdateRulesFetch(t)
  \/ \E t \in Threads : UpdateRulesCompile(t)
  \/ \E t \in Threads : UpdateRulesSetHash(t)
  \/ \E t \in Threads : UpdateRulesReturn(t)

Spec == Init /\ [][Next]_vars

\* The same client, its threads working through jobs, while the token stays
\* valid (no request is answered 401).
NextJob ==
  \/ Publish
  \/ \E t \in Threads, h \in 1..MaxHash : TakeJob(t, h)
  \/ \E t \in Threads : CheckHash(t)
  \/ \E t \in Threads : UpdateRulesLock(t)
  \/ \E t \in Threads : UpdateRulesFetch(t)
  \/ \E t \in Threads : UpdateRulesCompile(t)
  \/ \E t \in Threads : UpdateRulesSetHash(t)
  \/ \E t \in Threads : UpdateRulesReturn(t)
  \/ \E t \in Threads : ScanStart(t)
  \/ \E t \in Threads : ScanEnd(t)
  \/ \E t \in Threads : AcquireRead(t)
  \/ \E t \in Threads : FirstAttempt(t)
  \/ \E t \in Threads : Return(t)

SpecJob == Init /\ [][NextJob]_vars

\* The workers of main.rs.
NextWorker ==
  \/ Publish
  \/ \E w \in Workers : GetJob(w)
  \/ \E w \in Workers : SyncLock(w)
  \/ \E w \in Workers : SyncFetch(w)
  \/ \E w \in Workers : SyncReauthorize(w)
  \/ \E w \in Workers : SyncFetchAgain(w)
  \/ \E w \in Workers : SetHash(w)
  \/ \E w \in Workers : SetRules(w)
  \/ \E w \in Workers : SyncUnlock(w)
  \/ \E w \in Workers : ScanDistribution(w)
  \/ \E w \in Workers : PickHighest(w)
  \/ \E w \in Workers : Submit(w)
  \/ \E w \in Workers : JobError(w)
  \/ \E w \in Workers : JobEnd(w)

SpecWorker == Init /\ [][NextWorker]_vars

\* One archive scan of scanner.rs, over every archive of up to MaxEntries
\* entries.
NextScan ==
  \/ ScanTargzEntry
  \/ ScanTargzDone
  \/ ScanZipEntry
  \/ ScanZipDone

SpecScan == InitScan /\ [][NextScan]_vars

\* Threads submitting results, with tokens expiring under them.
NextSubmit ==
  \/ Expire
  \/ \E t \in Threads : Call(t, "send_success")
  \/ \E t \in Threads : AcquireRead(t)
  \/ \E t \in Threads : FirstAttempt(t)
  \/ \E t \in Threads : AcquireWrite(t)
  \/ \E t \in Threads : Reauthenticate(t)
  \/ \E t \in Threads : Install(t)
  \/ \E t \in Threads : SecondAttempt(t)
  \/ \E t \in Threads : Return(t)

\* What thread t does once it is inside send_success.
SubmitStep(t) ==
  \/ AcquireRead(t)
  \/ FirstAttempt(t)
  \/ AcquireWrite(t)
  \/ Reauthenticate(t)
  \/ Install(t)
  \/ SecondAttempt(t)
  \/ Return(t)

\* Every thread keeps taking steps: a thread that can go on all the time
\* does go on. Nothing is assumed of the order in which the RwLock serves
\* its waiters, which the standard library leaves to the platform.
SpecSubmit ==
  Init /\ [][NextSubmit]_vars /\ \A t \in Threads : WF_vars(SubmitStep(t))

\* The same with a lock that serves every waiter that can be served again
\* and again.
SpecSubmitFairLock ==
  /\ SpecSubmit
  /\ \A t \in Threads : SF_vars(AcquireWrite(t)) /\ SF_vars(AcquireRead(t))

\* One call of fetch_tarball or fetch_zipfile.
NextFetch ==
  \/ SendRequest
  \/ ReadToEnd
  \/ OpenArchive

SpecFetch == InitFetch /\ [][NextFetch]_vars

\* One call of scan_all_distributions.
NextDists ==
  \/ FetchDistribution
  \/ ScanFetched
  \/ AllDistributionsScanned

SpecDists == InitDists /\ [][NextDists]_vars

\* One call of reauthenticate. The thread runs whenever it can; nothing is
\* assumed of the endpoint.
NextRefresh ==
  \/ EndpointRecovers
  \/ FetchAccessToken
  \/ Backoff

SpecRefresh ==
  InitRefresh /\ [][NextRefresh]_vars /\ WF_vars(FetchAccessToken \/ Backoff)

\* The scoring of one job's scan results and the body do_job builds.
NextPackage ==
  \/ CollectResults
  \/ Measure
  \/ DoJob
  \/ DoJobAgain

SpecPackage == InitPackage /\ [][NextPackage]_vars

\* One rule match of one file through the filetype filter.
NextFiletype ==
  \/ GetFiletypes
  \/ FilterMatch

SpecFiletype == InitFiletype /\ [][NextFiletype]_vars

\* One download URL rewritten, and the result rewritten again.
NextUrl ==
  \/ Rewrite
  \/ RewriteAgain

SpecUrl == InitUrl /\ [][NextUrl]_vars

TypeOK ==
  /\ state.access_token \in Tokens
  /\ lock.writer \in Threads \cup {NoThread}
  /\ lock.writer # NoThread => lock.readers = {}

\* =================================================================== claims

\* C1: when several threads get 401 for the same stale token, one refresh is
\* made for that token; the other threads retry with the installed token and
\* do not refresh again.
C1_OneRefreshPerStaleToken == \A g \in Tokens : refreshesFor[g] <= 1

\* C2: for bulk_get_job, send_success and send_error a call makes at most two
\* sends and at most one refresh; a call whose first attempt got 401 returns
\* after exactly one refresh and exactly two sends, the second one carrying
\* the token that refresh installed, and its result is the second attempt's
\* outcome as it is, a second 401 included.
C2_SingleRefreshAndRetry ==
  \A t \in Threads :
    loc[t].op \in AuthOps =>
      /\ loc[t].sends <= 2
      /\ loc[t].refreshes <= 1
      /\ (pc[t] = "ret" /\ loc[t].first = "401") =>
            /\ loc[t].sends = 2
            /\ loc[t].refreshes = 1
            /\ loc[t].result = loc[t].second
            /\ loc[t].sent = loc[t].new_access_token

C2_Witness ==
  \E t \in Threads :
    /\ pc[t] = "ret" /\ loc[t].op \in AuthOps
    /\ loc[t].first = "401" /\ loc[t].second = "401"

\* C3: every bearer-authenticated call whose first attempt got 401, the rule
\* fetch of update_rules included, has made one refresh and re-sent the
\* request once by the time it returns.
C3_EveryCallRefreshesOn401 ==
  \A t \in Threads :
    (pc[t] \in {"ret", "ur_ret"} /\ loc[t].first = "401") =>
      loc[t].refreshes = 1 /\ loc[t].sends = 2

\* C7: when update_rules fails, in the fetch or in the compilation, the
\* stored rule set and the stored hash are those it found when it took the
\* lock, and it returns an error.
C7_FailedRefreshChangesNothing ==
  \A t \in Threads :
    (pc[t] = "ur_ret" /\ loc[t].failed # "none") =>
      /\ state.rules = loc[t].pre.rules
      /\ state.hash = loc[t].pre.hash
      /\ loc[t].result # "ok"

C7_Witness ==
  \E t \in Threads :
    /\ pc[t] = "ur_ret" /\ loc[t].failed = "compile"
    /\ loc[t].rules_response.hash # loc[t].pre.hash

\* C8: whenever the state can be read (no writer holds the lock), the stored
\* hash is the hash of the rules response the stored rule set was compiled
\* from.
C8_HashIsOfStoredRules == CanRead => state.hash = state.rules.hash

C8_Witness ==
  /\ lock.readers # {}
  /\ state.rules.fetch > 0
  /\ state.rules.hash # 1

\* A job's success submission has been accepted by the mainframe.
Submitted(t) ==
  /\ pc[t] = "ret" /\ loc[t].job # 0
  /\ loc[t].op = "send_success" /\ loc[t].result = "ok"

C4_JobAlwaysReported ==
  \A w \in Workers :
    wk[w].pc \in {"job_end", "panicked"} => wk[w].submitted # "none"

InSync(w) ==
  \/ ~wk[w].mismatch
  \/ wk[w].synced /\ wk[w].fetched = wk[w].job.hash

Oversize(i) == ~scan.entries[i].bad /\ scan.entries[i].size > max_scan_size

SizeError(i) ==
  /\ scan.ret.tag = "Err"
  /\ scan.ret.reason = "too_large"
  /\ scan.ret.path = i
  /\ scan.ret.results = <<>>

\* C9 (as stated): no oversize entry is read into a buffer, every oversize
\* entry the scan comes to makes it return the size error naming that
\* entry with no results, and an entry of exactly the limit is read and
\* scanned.
C9_OversizeAlwaysSizeError ==
  /\ \A i \in scan.read : ~Oversize(i)
  /\ \A i \in scan.visited : Oversize(i) => SizeError(i)
  /\ \A i \in scan.visited :
       (~scan.entries[i].bad /\ scan.entries[i].size = max_scan_size)
         => i \in scan.read

\* C9 (amended): the same for entries with a usable path; an entry without
\* one never reaches the size test.
C9_OversizeWithPathSizeError ==
  /\ \A i \in scan.read : ~Oversize(i)
  /\ \A i \in scan.visited :
       (Oversize(i) /\ scan.entries[i].path_ok) => SizeError(i)
  /\ \A i \in scan.visited :
       (/\ ~scan.entries[i].bad
        /\ scan.entries[i].path_ok
        /\ scan.entries[i].size = max_scan_size)
         => /\ i \in scan.read
            /\ scan.entries[i].fault # "read" => i \in scan.scanned

\* An oversize entry met after an entry of exactly the limit was scanned and
\* before a further entry: the size error names it, nothing is returned.
C9_Witness ==
  \E i \in 2..MaxEntries :
    /\ i < Len(scan.entries)
    /\ SizeError(i)
    /\ scan.file_scan_results # <<>>
    /\ \E j \in scan.scanned : scan.entries[j].size = max_scan_size

\* ---------------------------------------------------------------- C10
\* C10 (as stated): a scan that came to an entry that fails to parse never
\* returns Ok.
C10_ParseErrorFailsScan ==
  scan.ret.tag = "Ok" => \A i \in scan.visited : ~scan.entries[i].bad

\* ------------------------------------------------------- C11 .. C16, C19
\* The first of the equally maximum elements, as an index.
FirstMax(keys) ==
  CHOOSE i \in DOMAIN keys :
    \A j \in DOMAIN keys :
      /\ keys[j] <= keys[i]
      /\ j < i => keys[j] < keys[i]

Measured == pkg.stage \in {"measured", "done"}

BodySent == pkg.stage = "done" /\ pkg.body.tag = "success"

\* C11 (as stated): get_most_malicious_file returns the file with the
\* largest score, the first one in archive order when several share it.
C11_MostMaliciousFirstOnTies ==
  Measured =>
    \A d \in DOMAIN pkg.results :
      pkg.results[d] # <<>> =>
        pkg.most_malicious[d] = FirstMax(pkg.file_scores[d])

\* C12 (as stated): the body has an inspector URL exactly when some file of
\* the winning distribution matched at least one rule.
C12_UrlIffSomeMatch ==
  BodySent =>
    (pkg.body.inspector_url.present
       <=> \E f \in DOMAIN pkg.results[pkg.body.highest] :
             pkg.results[pkg.body.highest][f].rules # <<>>)

\* C13: the score of a success body is the maximum of the distributions'
\* total scores, whatever the signs of the weights.
C13_ScoreIsMaxTotal ==
  BodySent =>
    /\ \A d \in DOMAIN pkg.total : pkg.total[d] <= pkg.body.score
    /\ \E d \in DOMAIN pkg.total : pkg.total[d] = pkg.body.score

\* A body with a negative score that beat a lower total.
C13_Witness ==
  /\ BodySent
  /\ pkg.body.score < 0
  /\ \E d \in DOMAIN pkg.total : pkg.total[d] < pkg.body.score

\* C14 (as stated): the winning distribution has the largest total score,
\* the first one in job.distributions when several share it, and the
\* inspector URL points into it.
C14_WinnerFirstOnTies ==
  BodySent =>
    /\ pkg.body.highest = FirstMax(pkg.total)
    /\ pkg.body.inspector_url.present =>
         pkg.body.inspector_url.dist = pkg.body.highest

\* C15 (as stated): rules_matched is the union of the matched rule names of
\* all distributions of the job.
C15_RulesMatchedIsUnion ==
  BodySent =>
    pkg.body.rules_matched
      = UNION {pkg.identifiers[d] : d \in DOMAIN pkg.identifiers}

\* The weight a rule name stands for: its integer weight, else 0.
WeightOf(name) ==
  IF pkg.metas[name].kind = "Integer" THEN pkg.metas[name].value ELSE 0

RECURSIVE SumWeights(_)
SumWeights(names) ==
  IF names = {} THEN 0
  ELSE LET n == CHOOSE x \in names : TRUE
       IN WeightOf(n) + SumWeights(names \ {n})

\* C16: a distribution's total score is the sum of the weights of the
\* distinct rules its files matched, a rule matched by several files
\* counted once.
C16_TotalCountsRuleOnce ==
  Measured =>
    \A d \in DOMAIN pkg.total :
      pkg.total[d]
        = SumWeights(UNION {pkg.matched[d][f] : f \in DOMAIN pkg.matched[d]})

\* Two files of one distribution matched the same rule of nonzero weight.
C16_Witness ==
  /\ Measured
  /\ \E d \in DOMAIN pkg.matched :
       /\ Len(pkg.matched[d]) >= 2
       /\ \E r \in pkg.matched[d][1] \cap pkg.matched[d][2] :
            /\ WeightOf(r) # 0
            /\ pkg.total[d] = SumWeights(pkg.matched[d][1] \cup pkg.matched[d][2])

EndsWith(path, suffix) ==
  /\ Len(suffix) <= Len(path)
  /\ SubSeq(path, Len(path) - Len(suffix) + 1, Len(path)) = suffix

\* C17 (as stated): a match is kept exactly when the rule has no filetypes
\* or the path ends with one of them, compared as plain string suffixes.
C17_KeptIffSuffix ==
  gate.stage = "filtered" =>
    (gate.kept
       <=> \/ gate.filetype.kind # "String"
           \/ \E i \in DOMAIN Split(gate.filetype.value) :
                EndsWith(gate.path, Split(gate.filetype.value)[i]))

\* C18 (as stated): a rule whose filetype metadata is absent or the empty
\* string has its match kept for every path.
C18_EmptyFiletypeKeepsAll ==
  (/\ gate.stage = "filtered"
   /\ \/ gate.filetype.kind = "absent"
      \/ gate.filetype.kind = "String" /\ gate.filetype.value = <<>>)
    => gate.kept

\* ----------------------------------------------------------------- C20
\* C20 (as stated): create_inspector_url applied to its own result, with the
\* same name and version, returns that result.
C20_RewriteIdempotent ==
  insp.stage = "twice" => insp.twice = insp.once

\* ----------------------------------------------------------------- C21
\* The slashes a URL ends with: the empty segments at the end of its path.
RECURSIVE TrailingSlashes(_)
TrailingSlashes(path) ==
  IF path = <<>> \/ path[Len(path)] # "" THEN 0
  ELSE 1 + TrailingSlashes(SubSeq(path, 1, Len(path) - 1))

\* The rewrite keeps the scheme, sets the host to inspector.pypi.io and puts
\* the old path, without its leading slash, after project/name/version/ and
\* before a slash.
RewrittenAsSpecified ==
  /\ insp.once.scheme = insp.download_url.scheme
  /\ insp.once.host = "inspector.pypi.io"
  /\ insp.once.path
       = <<"project", insp.name, insp.version>>
           \o insp.download_url.path \o <<"">>

C22_SameBodyEveryRun ==
  pkg.stage = "again" => pkg.again = pkg.body

\* ----------------------------------------------------------------- C23
\* reauthenticate has returned, or not, with what an Ok response gave it.
ReturnsOnlyWithToken ==
  /\ reauth.pc \in {"fetch", "sleep", "returned"}
  /\ reauth.pc = "returned" =>
       /\ reauth.r.ok
       /\ reauth.access_token = reauth.r.access_token
       /\ reauth.access_token \in Tokens
  /\ reauth.pc # "returned" => reauth.access_token = NoToken

\* A failed attempt goes to the sleep and the sleep back to an attempt.
FailureRetries ==
  /\ (reauth.pc = "fetch" /\ reauth'.pc # "fetch" /\ ~reauth'.r.ok)
       => reauth'.pc = "sleep"
  /\ (reauth.pc = "sleep" /\ reauth'.pc # "sleep") => reauth'.pc = "fetch"

\* C23: reauthenticate returns only with the token of a successful response;
\* a failed attempt is followed by the sleep and another attempt, never by
\* a return; once the endpoint answers, reauthenticate returns.
C23_RefreshNeverFails ==
  /\ []ReturnsOnlyWithToken
  /\ [][FailureRetries]_vars
  /\ ((reauth.pc \in {"fetch", "sleep"} /\ reauth.up)
        ~> reauth.pc = "returned")

\* Returned with a token after five failed attempts.
C23_Witness ==
  /\ reauth.pc = "returned"
  /\ reauth.tries = 5
  /\ reauth.r.ok
  /\ reauth.access_token = reauth.r.access_token

\* ----------------------------------------------------------------- C24
Min(a, b) == IF a < b THEN a ELSE b

\* C24: the k-th sleep of one reauthenticate is min(600, 2^(k-1)) seconds;
\* the sleeps never get shorter and never exceed 600.
C24_BackoffDelays ==
  reauth.pc # "none" =>
    /\ Len(reauth.slept) = reauth.tries
    /\ \A k \in DOMAIN reauth.slept :
         /\ reauth.slept[k] = Min(600, powf(2, k - 1))
         /\ reauth.slept[k] <= 600
         /\ k > 1 => reauth.slept[k - 1] <= reauth.slept[k]

\* Twelve failures: 1, 2, 4, ..., 512, then 600 twice.
C24_Witness ==
  /\ reauth.pc \in {"fetch", "returned"}
  /\ Len(reauth.slept) = 12
  /\ reauth.slept[1] = 1
  /\ reauth.slept[10] = 512
  /\ reauth.slept[11] = 600
  /\ reauth.slept[12] = 600

\* ----------------------------------------------------------------- C25
\* Thread t holds the write lock for a refresh and has not installed the
\* new token yet: its token requests are made here.
Refreshing(t) == pc[t] \in {"reauth", "install"}

\* Thread t has a request carrying state.access_token in flight.
Sending(t) == pc[t] \in {"send1", "send2", "ur_fetch"}

\* C25: no two threads are refreshing at once, and while one is, no other
\* thread has a request reading the token in flight.
C25_RefreshSerialized ==
  \A t \in Threads : \A u \in Threads \ {t} :
    Refreshing(t) =>
      /\ ~Refreshing(u)
      /\ ~Sending(u)
      /\ lock.writer = t
      /\ lock.readers = {}

\* Both threads got 401 for the same token: one is refreshing, the other
\* waits for the write lock.
C25_Witness ==
  \E t \in Threads : \E u \in Threads \ {t} :
    /\ pc[t] = "reauth"
    /\ pc[u] = "write_wait"
    /\ loc[t].sent = loc[u].sent
    /\ loc[u].first = "401"

\* ----------------------------------------------------------------- C26
\* C26 (as stated): a thread that got 401 on its submission and waits for
\* the write lock gets it, as long as the auth endpoint still issues tokens.
C26_WaiterGetsLock ==
  \A t \in Threads :
    (pc[t] = "write_wait" /\ loc[t].op = "send_success")
      ~> (pc[t] # "write_wait" \/ auth0.issued = MaxTokens)

\* ----------------------------------------------------------------- C27
\* The sync of worker w was started and did not store a rule set.
SyncFailed(w) == wk[w].mismatch /\ ~wk[w].synced

\* A step of worker w during and after a sync that fails.
ScansAfterFailedSync(w) ==
  /\ (wk[w].pc \in {"fetch_rules", "reauthorize", "fetch_again"}
        /\ wk'[w] # wk[w])
       => /\ wk'[w].pc \in {"set_hash", "reauthorize", "fetch_again", "unlock"}
          /\ wk'[w].job = wk[w].job
          /\ wk'[w].pc = "unlock" => (~wk'[w].synced /\ mstate' = mstate)
  /\ (wk[w].pc = "unlock" /\ SyncFailed(w) /\ wk'[w] # wk[w])
       => /\ wk'[w].pc = "do_job"
          /\ wk'[w].job = wk[w].job
          /\ wk'[w].run = 1
          /\ wk'[w].i = 0
  /\ (wk[w].pc = "do_job" /\ SyncFailed(w) /\ wk'[w].i = wk[w].i + 1)
       => /\ wk'[w].job = wk[w].job
          /\ wk'[w].used = wk[w].used \cup {mstate.rules}

\* C27: every way the sync can fail ends at the end of the block with the
\* stored rules untouched by this worker, and from there the worker starts
\* do_job on the same job and scans with the rule set stored at that time.
C27_JobNotSkipped ==
  [][\A w \in Workers : ScansAfterFailedSync(w)]_vars

\* A worker whose sync failed after a 401 has scanned a distribution of its
\* job with the rule set that was stored.
C27_Witness ==
  \E w \in Workers :
    /\ wk[w].pc = "do_job"
    /\ SyncFailed(w)
    /\ wk[w].job.hash # mstate.hash
    /\ wk[w].i = 1
    /\ wk[w].used = {mstate.rules}

\* ----------------------------------------------------------------- C28
\* C28 (as stated): a job without distributions ends in a success body with
\* score 0 and no inspector URL.
C28_EmptyJobSubmitsZero ==
  (pkg.stage = "done" /\ pkg.matched = <<>>) =>
    /\ pkg.body.tag = "success"
    /\ pkg.body.score = 0
    /\ ~pkg.body.inspector_url.present

\* ----------------------------------------------------------------- C29
\* Entry i is a file whose declared path is absolute or climbs out.
UnsafePath(i) == ~scan.entries[i].bad /\ scan.entries[i].unsafe

\* C29 (as stated): an entry with an absolute or climbing path is skipped:
\* it is not read, not scanned, has no result, and does not end the scan.
C29_UnsafePathSkipped ==
  \A i \in DOMAIN scan.entries :
    (UnsafePath(i) /\ i \in scan.visited) =>
      /\ i \notin scan.read
      /\ i \notin scan.scanned
      /\ \A k \in DOMAIN scan.file_scan_results :
           scan.file_scan_results[k].path # i
      /\ ~(scan.ret.tag = "Err" /\ scan.ret.path = i)

\* ----------------------------------------------------------------- C30
\* The indices in s, in rising order.
RECURSIVE Ascending(_)
Ascending(S) ==
  IF S = {} THEN <<>>
  ELSE LET m == CHOOSE x \in S : \A y \in S : x <= y
       IN <<m>> \o Ascending(S \ {m})

\* C30: a scan that returns Ok returns one FileScanResult for each entry it
\* scanned and no other, in the order of the archive; the result of a file
\* that matched nothing is there with no rules and score 0.
C30_OneResultPerScannedEntry ==
  /\ (scan.kind # "none" /\ scan.ret.tag # "Err") =>
       [k \in DOMAIN scan.file_scan_results |->
          scan.file_scan_results[k].path] = Ascending(scan.scanned)
  /\ (scan.kind # "none" /\ scan.ret.tag = "Ok") =>
       /\ scan.ret.results = scan.file_scan_results
       /\ \A k \in DOMAIN scan.ret.results :
            LET file == scan.ret.results[k] IN
              /\ {file.rules[j].name : j \in DOMAIN file.rules}
                   = scan.entries[file.path].matches
              /\ scan.entries[file.path].matches = {} =>
                   (file.rules = <<>> /\ calculate_score(file) = 0)

\* An Ok scan of three files of which the second matched nothing: three
\* results, the second one empty.
C30_Witness ==
  /\ scan.kind # "none"
  /\ scan.ret.tag = "Ok"
  /\ Len(scan.ret.results) = 3
  /\ scan.ret.results[1].rules # <<>>
  /\ scan.ret.results[2].rules = <<>>
  /\ scan.ret.results[2].path = 2
  /\ scan.ret.results[3].rules # <<>>

\* ----------------------------------------------------------------- C31
\* Thread t is inside update_rules with the write guard.
Updating(t) == pc[t] \in {"ur_fetch", "ur_compile", "ur_sethash", "ur_ret"}

\* A scan holds its read handle and the rule set it took is the stored one;
\* an update holds the cell alone.
ScanSeesOneRuleSet ==
  \A t \in Threads :
    /\ pc[t] = "scanning" =>
         /\ t \in lock.readers
         /\ lock.writer = NoThread
         /\ loc[t].scanned = state.rules
         /\ loc[t].commit = state.hash
         /\ \A u \in Threads : ~Updating(u)
    /\ Updating(t) => (lock.writer = t /\ lock.readers = {})

\* No step replaces the rule set or the hash while a read handle is held.
ReadersKeepRuleSet ==
  lock.readers # {} => (state'.rules = state.rules /\ state'.hash = state.hash)

UpTo(n) == [k \in 1..n |-> k]

\* The first distribution of the job that is not downloaded and scanned
\* without error, 0 if there is none.
FirstFailing ==
  IF \A k \in DOMAIN dists.job : dists.job[k].fate = "scanned" THEN 0
  ELSE CHOOSE k \in DOMAIN dists.job :
         /\ dists.job[k].fate # "scanned"
         /\ \A j \in 1..(k - 1) : dists.job[j].fate = "scanned"

\* C32: distributions are downloaded and scanned one after the other in the
\* order of the job; a distribution is downloaded only when all before it
\* have been scanned; the results are in the order of the job; the first
\* failing download or scan ends the call with that error and nothing
\* after it is downloaded.
C32_DistributionsInOrder ==
  dists.pc # "none" =>
    /\ dists.downloaded = UpTo(Len(dists.downloaded))
    /\ dists.scanned = UpTo(Len(dists.scanned))
    /\ dists.distribution_scan_results
         = UpTo(Len(dists.distribution_scan_results))
    /\ Len(dists.scanned) <= Len(dists.downloaded)
    /\ Len(dists.downloaded) <= Len(dists.scanned) + 1
    /\ Len(dists.downloaded) <= Len(dists.distribution_scan_results) + 1
    /\ dists.ret.tag = "Ok" =>
         /\ FirstFailing = 0
         /\ dists.ret.results = UpTo(Len(dists.job))
    /\ dists.ret.tag = "Err" =>
         /\ dists.ret.at = FirstFailing
         /\ dists.job[FirstFailing].fate \in {"fetch_err", "scan_err"}
         /\ Len(dists.downloaded) = FirstFailing
         /\ dists.distribution_scan_results = UpTo(FirstFailing - 1)
    /\ dists.ret.tag = "panic" =>
         /\ dists.ret.at = FirstFailing
         /\ dists.job[FirstFailing].fate = "bad_url"
         /\ Len(dists.downloaded) = FirstFailing - 1

\* A job of two distributions of which the first is downloaded and fails in
\* its scan: the call has ended with that error, the second was never
\* downloaded.
C32_Witness ==
  /\ dists.pc = "done"
  /\ Len(dists.job) = 2
  /\ dists.job[1].fate = "scan_err"
  /\ dists.job[2].fate = "scanned"
  /\ dists.ret.tag = "Err"
  /\ dists.ret.at = 1
  /\ dists.downloaded = <<1>>
  /\ dists.scanned = <<1>>
  /\ dists.distribution_scan_results = <<>>

\* ----------------------------------------------------------------- C33
\* The places of a worker that is inside its loop.
InLoop ==
  {"loop", "lock", "fetch_rules", "reauthorize", "fetch_again", "set_hash",
   "set_rules", "unlock", "do_job", "submit", "job_err", "job_end"}

\* C33 (as stated): whatever the job fetch returns and whatever happens to
\* a job, every worker stays in its loop.
C33_WorkerNeverLeavesLoop ==
  \A w \in Workers : wk[w].pc \in InLoop

\* ----------------------------------------------------------------- C34
\* Worker w has a job it has not finished.
Unfinished(w) == wk[w].pc \in InLoop \ {"loop"}

\* Worker w is scanning the distributions of its job.
Scanning(w) == wk[w].pc = "do_job"

\* A worker gets a job only at the head of its loop, with no job in hand,
\* and is rid of it only when the job has ended.
OneJobAtATime(w) ==
  wk'[w].job # wk[w].job =>
    \/ wk[w].pc = "loop" /\ wk[w].job = IdleWorker.job
    \/ wk[w].pc = "job_end" /\ wk'[w] = IdleWorker

\* C34: no more jobs are being scanned than there are threads, and a worker
\* has one unfinished job at most: it takes the next one only after the
\* last one has ended.
C34_BoundedParallelism ==
  /\ [](Cardinality({w \in Workers : Scanning(w)}) <= Cardinality(Threads))
  /\ [](\A w \in Workers : wk[w].pc = "loop" => wk[w].job = IdleWorker.job)
  /\ [][\A w \in Workers : OneJobAtATime(w)]_vars

\* Every worker of the pool is scanning a job of its own.
C34_Witness ==
  /\ \A w \in Workers : Scanning(w) /\ wk[w].job.ndist > 0
  /\ Cardinality({w \in Workers : Scanning(w)}) = Cardinality(Threads)

\* ---------------------------------------------------------------- C35
FetchDone == fetch.pc = "done"

\* The body was longer than what the fetcher keeps of it.
Truncated ==
  /\ fetch.answer.sent
  /\ fetch.answer.body.format = "archive"
  /\ fetch.answer.body.len > max_scan_size

\* C35 as stated: the fetcher never buffers more than max_scan_size bytes,
\* and a body cut at max_scan_size makes neither fetcher return an error.
C35_TruncationNeverAnError ==
  /\ fetch.pc # "none" => fetch.buffered <= max_scan_size
  /\ (FetchDone /\ Truncated) => fetch.ret.tag = "Ok"

\* C35: neither fetcher ever buffers more than max_scan_size bytes for one
\* distribution, and reading stops at max_scan_size bytes or at the end of
\* the body, whichever comes first. A cut .tar.gz body is handed on without
\* an error, with exactly max_scan_size bytes; a cut zip body is handed on
\* without an error only if what is left still opens as a zip archive, and
\* otherwise fetch_zipfile returns a zip error.
C35_FetchBuffersAtMostCap ==
  /\ fetch.pc # "none" => fetch.buffered <= max_scan_size
  /\ fetch.pc \in {"open", "done"} /\ fetch.ret.tag = "Ok"
       => fetch.buffered = Taken
  /\ fetch.pc # "none" /\ fetch.ret.tag = "Ok"
       => fetch.ret.bytes = fetch.buffered
  /\ (FetchDone /\ Truncated /\ fetch.kind = "targz")
       => fetch.ret = [tag |-> "Ok", error |-> "none",
                       bytes |-> max_scan_size]
  /\ (FetchDone /\ Truncated /\ fetch.kind = "zip")
       => IF fetch.answer.body.cut_opens
            THEN fetch.ret = [tag |-> "Ok", error |-> "none",
                              bytes |-> max_scan_size]
            ELSE fetch.ret = FetchErr("zip")

\* A zip body longer than max_scan_size was read up to the limit and
\* fetch_zipfile returned a zip error.
C35_Witness ==
  /\ FetchDone /\ Truncated /\ fetch.kind = "zip"
  /\ fetch.buffered = max_scan_size
  /\ fetch.ret = FetchErr("zip")

\* ---------------------------------------------------------------- C37
\* The download was answered with an error status.
ErrorStatus == fetch.answer.sent /\ fetch.answer.status >= 400

\* C37: a download answered with an error status (400 or above) makes the
\* fetcher return an HTTP error: the body of the error response is never
\* read into the buffer, never opened as an archive and never handed on.
C37_ErrorStatusIsHttpError ==
  ErrorStatus =>
    /\ fetch.pc \in {"send", "done"}
    /\ fetch.buffered = 0
    /\ FetchDone => fetch.ret = FetchErr("http")

UnderStateLock == {"fetch_rules", "reauthorize", "fetch_again",
                   "set_hash", "set_rules", "unlock"}

\* Where a worker is while it fetches rules and stores them.
FetchingRules == UnderStateLock \ {"unlock"}

\* Worker w found its job's hash to differ, fetched, and the mainframe
\* answered with rules of the job's hash, which w stored.
FetchedJobHash(w) ==
  /\ wk[w].mismatch /\ wk[w].synced
  /\ wk[w].fetched = wk[w].job.hash

\* The step in which worker w takes the lock and compares: it goes on to
\* fetch rules exactly if the stored hash differs from the job's.
ComparesUnderLock(w) ==
  (wk[w].pc = "lock" /\ wk'[w].pc # "lock") =>
    /\ mstate.locked_by = NoThread /\ mstate'.locked_by = w
    /\ wk'[w].pc \in {"fetch_rules", "unlock"}
    /\ wk'[w].pc = "fetch_rules" <=> mstate.hash # wk[w].job.hash

\* While worker w holds the lock for a job whose hash is the stored one,
\* and while anyone is outside the block, rules and hash stay as they are;
\* they change only in a step of a worker that fetched under the lock.
ReplacesUnderLock ==
  (mstate'.hash # mstate.hash \/ mstate'.rules # mstate.rules) =>
    \E w \in Workers :
      /\ mstate.locked_by = w /\ mstate'.locked_by = w
      /\ wk[w].mismatch
      /\ wk[w].pc \in {"set_hash", "set_rules"}

\* C38: a worker fetches rules for a job exactly if the job's hash differs
\* from the stored hash when it holds the state lock, and comparison, fetch
\* and replacement are one lock hold; a job whose hash is the stored one
\* causes no fetch and leaves rules and hash as they are; and of two workers
\* in jobs with the same hash, at most one has fetched and been served the
\* rules of that hash.
C38_FetchIffHashDiffers ==
  /\ [](\A w \in Workers :
          /\ wk[w].pc \in UnderStateLock => mstate.locked_by = w
          /\ wk[w].pc \in FetchingRules => wk[w].mismatch
          /\ (wk[w].pc \notin {"loop", "lock"} /\ ~wk[w].mismatch) =>
               wk[w].fetched = 0 /\ ~wk[w].synced
          /\ (wk[w].pc = "unlock" /\ ~wk[w].mismatch) =>
               mstate.hash = wk[w].job.hash)
  /\ [](\A w \in Workers : \A v \in Workers \ {w} :
          wk[w].job.hash = wk[v].job.hash =>
            ~(FetchedJobHash(w) /\ FetchedJobHash(v)))
  /\ [][(\A w \in Workers : ComparesUnderLock(w)) /\ ReplacesUnderLock]_vars

\* Both workers are in jobs with hash 2, taken while the stored hash was 1:
\* worker 1 fetched under the lock and stored the rules of hash 2, worker 2
\* then found the hashes equal and fetched nothing.
C38_Witness ==
  /\ wk[1].job.hash = 2 /\ wk[2].job.hash = 2
  /\ wk[1].pc = "do_job" /\ FetchedJobHash(1)
  /\ wk[2].pc = "unlock" /\ ~wk[2].mismatch /\ wk[2].fetched = 0
  /\ mstate.hash = 2 /\ mstate.rules = 2 /\ mstate.locked_by = 2

\* ---------------------------------------------------------------- C39
\* Thread t is in an authenticated call whose first attempt succeeded or
\* failed with something other than 401.
NotUnauthorized(t) ==
  loc[t].op \in AuthOps /\ loc[t].first \in {"ok", "err"}

\* A step that takes thread t from its first attempt to the return, or
\* from the return to the caller, without a 401.
PassesResultOn(t) ==
  /\ loc[t].op \in AuthOps
  /\ \/ pc[t] = "send1" /\ pc'[t] = "ret"
     \/ pc[t] = "ret" /\ pc'[t] = "idle" /\ loc[t].first # "401"

\* C39: an authenticated call whose first attempt succeeds, or fails with
\* anything but 401, makes no refresh and sends nothing again: it goes
\* straight to the return with one send, and its result is the outcome of
\* that attempt; its steps ask for no token, take no write lock and leave
\* the stored token, rules and hash as they are.
C39_OtherOutcomesPassThrough ==
  /\ [](\A t \in Threads :
          NotUnauthorized(t) =>
            /\ pc[t] = "ret"
            /\ loc[t].sends = 1 /\ loc[t].refreshes = 0
            /\ loc[t].second = "none" /\ loc[t].new_access_token = 0
            /\ loc[t].result = loc[t].first
            /\ lock.writer # t)
  /\ [][\A t \in Threads :
          PassesResultOn(t) =>
            /\ state' = state
            /\ auth0' = auth0
            /\ refreshesFor' = refreshesFor
            /\ lock'.writer = lock.writer]_vars

\* A call returns the error of its only attempt while the other thread is
\* refreshing after a 401.
C39_Witness ==
  \E t \in Threads : \E u \in Threads \ {t} :
    /\ pc[t] = "ret" /\ loc[t].op \in AuthOps
    /\ loc[t].first = "err" /\ loc[t].result = "err" /\ loc[t].sends = 1
    /\ pc[u] = "write_wait"

\* ---------------------------------------------------------------- C40
\* Thread t has installed the token of its refresh and not sent the retry.
Retrying(t) == pc[t] = "send2" /\ loc[t].op \in AuthOps

\* C40: from the installation of the new token to the retry the refreshing
\* thread holds the write lock: the stored token is the one its refresh
\* obtained, no other thread has a request in flight or is refreshing, no
\* step changes the token before the retry is sent, and the retry carries
\* the installed token.
C40_RetryUnderWriteLock ==
  /\ [](\A t \in Threads : \A u \in Threads \ {t} :
          Retrying(t) =>
            /\ lock.writer = t /\ lock.readers = {}
            /\ state.access_token = loc[t].new_access_token
            /\ ~Sending(u) /\ ~Refreshing(u))
  /\ [][\A t \in Threads :
          Retrying(t) =>
            /\ state'.access_token = state.access_token
            /\ pc'[t] # "send2" =>
                 /\ pc'[t] = "ret"
                 /\ loc'[t].sent = state.access_token
                 /\ loc'[t].sent = loc[t].new_access_token
                 /\ loc'[t].sends = 2]_vars

\* Thread t is about to retry with the token it installed, which differs
\* from the one that got 401, while the other thread, turned away with the
\* same old token, waits for the write lock.
C40_Witness ==
  \E t \in Threads : \E u \in Threads \ {t} :
    /\ Retrying(t)
    /\ state.access_token # loc[t].sent
    /\ pc[u] = "write_wait" /\ loc[u].sent = loc[t].sent

====
